---- MODULE Spec2Model ----
(***************************************************************************)
(* A model of mcp-logseq's core: the block parser and serializer           *)
(* (block-parser.ts), the block-reference resolver (block-ref.ts), the     *)
(* search service (search.ts), the path filter (pathfilter.ts) and the     *)
(* file operations of FileSystemService (filesystem.ts).                   *)
(*                                                                         *)
(* Text is modelled at character level: a JavaScript string is a sequence  *)
(* of one-character strings, so that trimming, splitting, joining and the  *)
(* regular expressions of the source are computed and not assumed.         *)
(***************************************************************************)
EXTENDS Integers, Sequences, FiniteSets, TLC

VARIABLES
    \* parser / serializer
    body,        \* the markdown body handed to parseBlocks
    pc,          \* position of the caller: "input", "parsed", "serialized", "reparsed"
    forest,      \* parseBlocks(body)
    text,        \* serializeBlocks(forest)
    forest2,     \* parseBlocks(text)
    uuidCalls,   \* number of uuidv4() calls made so far
    \* block references
    refParts,    \* the pieces (reference tokens and other text) content is made of
    refContent,  \* the content handed to resolveBlockRefs / resolveBlockRefsAsync
    lookup,      \* the caller's resolveUuid: uuid string -> block or null
    rpc,         \* position of resolveBlockRefsAsync: "start", "loop", "awaiting", "done"
    syncResult,  \* [done, value]: the result of resolveBlockRefs once it was called
    refs,        \* extractBlockRefs(content), the async loop's iteration list
    refIdx,      \* index of the async loop in refs
    inFlight,    \* ids whose lookup promise is pending
    lookups,     \* ids passed to the async lookup so far, in call order
    result,      \* the async loop's running result
    \* search
    query,       \* params.query
    limit,       \* params.limit
    options,     \* params.searchContent, searchFrontmatter, searchBlockProperties
    files,       \* the markdown files of the graph, in traversal order
    listed,      \* whether findMarkdownFiles was called
    readFiles,   \* the files handed to readFile so far, in order
    fileIdx,     \* index of the file loop in files
    results,     \* SearchService.search's results array
    searchError, \* the message of the error search threw, if any
    spc,         \* position of search: "start", "scan", "done", "thrown"
    \* task search
    taskArgs,    \* the arguments of the tool call search_tasks: markers, path, limit
    taskParams,  \* the params the handler passes to searchTasks
    taskFiles,   \* the markdown files of the graph, in traversal order: path and body
    taskIdx,     \* index of the file loop in taskFiles
    taskResults, \* the task blocks found so far
    tpc,         \* position of the tool call: "start", "scan", "done"
    \* file system
    disk,        \* the files on disk: absolute path (its segments) |-> content
    diskBefore,  \* the disk as the last call found it
    fsCall,      \* the last call of FileSystemService: op and arguments
    fsReturn,    \* what it returned or threw
    fsAccess,    \* the files it read, wrote or unlinked
    fsUuids,     \* number of uuidv4() calls made by FileSystemService's reads
    fsCalls,     \* number of calls made so far
    \* search: the result pushed for one block
    exBlock,     \* the block of the block loop: content and properties
    exParams,    \* params.query and params.caseSensitive
    exPushed,    \* the result pushed for the block, if any
    \* block references: the shared regular expression
    reLastIndex, \* BLOCK_REF_REGEX.lastIndex
    hbContent,   \* the content the calls are made on
    hbReturns,   \* the calls made so far: function and what it returned
    \* graph statistics
    stTree,      \* the directory entries of the graph, in readdir order
    stCount,     \* the recentCount argument
    stIdx,       \* number of entries visited so far
    stRecent,    \* the recent array
    stTotals,    \* totalNotes, totalFolders, totalSize
    stpc         \* position of getGraphStats: "scan", "done"

parserVars == <<body, pc, forest, text, forest2, uuidCalls>>
refVars    == <<refParts, refContent, lookup, rpc, syncResult, refs, refIdx,
                inFlight, lookups, result>>
searchVars == <<query, limit, options, files, listed, readFiles, fileIdx, results,
                searchError, spc>>
taskVars   == <<taskArgs, taskParams, taskFiles, taskIdx, taskResults, tpc>>
fsVars     == <<disk, diskBefore, fsCall, fsReturn, fsAccess, fsUuids, fsCalls>>
excerptVars == <<exBlock, exParams, exPushed>>
regexVars  == <<reLastIndex, hbContent, hbReturns>>
statsVars  == <<stTree, stCount, stIdx, stRecent, stTotals, stpc>>
laterVars  == <<excerptVars, regexVars, statsVars>>
vars       == <<parserVars, refVars, searchVars, taskVars, fsVars, laterVars>>

-----------------------------------------------------------------------------
(* Characters and strings *)

\* optional string-valued fields (parentUuid, marker, priority): absent
Absent == <<>>

Min(a, b) == IF a <= b THEN a ELSE b
Max(a, b) == IF a >= b THEN a ELSE b

Digits  == {"0", "1", "2", "3", "4", "5", "6", "7", "8", "9"}
UpperSeq == <<"A", "B", "C", "D", "E", "F", "G", "H", "I", "J", "K", "L", "M",
              "N", "O", "P", "Q", "R", "S", "T", "U", "V", "W", "X", "Y", "Z">>
LowerSeq == <<"a", "b", "c", "d", "e", "f", "g", "h", "i", "j", "k", "l", "m",
              "n", "o", "p", "q", "r", "s", "t", "u", "v", "w", "x", "y", "z">>
UpperSet == {UpperSeq[i] : i \in 1..26}
LowerSet == {LowerSeq[i] : i \in 1..26}

\* JavaScript \s and String.prototype.trim, restricted to the characters of the model
WhiteSpace == {" ", "\t", "\r", "\n"}
\* what the regular expression `.` does not match
LineTerminators == {"\n", "\r"}
\* \w
WordChars == UpperSet \cup LowerSet \cup Digits \cup {"_"}
\* [a-zA-Z0-9_-]
KeyChars == WordChars \cup {"-"}
\* [0-9a-f] under the i flag
HexChars == Digits \cup {"a", "b", "c", "d", "e", "f", "A", "B", "C", "D", "E", "F"}

toLowerChar(c) ==
    IF c \in UpperSet THEN LowerSeq[CHOOSE i \in 1..26 : UpperSeq[i] = c] ELSE c
toUpperChar(c) ==
    IF c \in LowerSet THEN UpperSeq[CHOOSE i \in 1..26 : LowerSeq[i] = c] ELSE c
toLowerCase(s) == [i \in 1..Len(s) |-> toLowerChar(s[i])]
toUpperCase(s) == [i \in 1..Len(s) |-> toUpperChar(s[i])]

\* number of leading characters of s that are in C
LeadingCount(s, C) ==
    IF \A i \in 1..Len(s) : s[i] \in C THEN Len(s)
    ELSE (CHOOSE i \in 1..Len(s) : s[i] \notin C /\ \A j \in 1..(i - 1) : s[j] \in C) - 1
TrailingCount(s, C) ==
    IF \A i \in 1..Len(s) : s[i] \in C THEN Len(s)
    ELSE Len(s) - (CHOOSE i \in 1..Len(s) :
                       s[i] \notin C /\ \A j \in (i + 1)..Len(s) : s[j] \in C)
From(s, i) == SubSeq(s, i, Len(s))
\* s from position i on, after the whitespace that starts there
SkipWs(s, i) == i + LeadingCount(From(s, i), WhiteSpace)
trim(s) ==
    LET a == LeadingCount(s, WhiteSpace)
    IN  IF a = Len(s) THEN <<>>
        ELSE SubSeq(s, a + 1, Len(s) - TrailingCount(s, WhiteSpace))
NoLineTerminator(s) == \A i \in 1..Len(s) : s[i] \notin LineTerminators
StartsWith(s, p) == Len(s) >= Len(p) /\ SubSeq(s, 1, Len(p)) = p
Repeat(c, n) == [i \in 1..n |-> c]

\* String.prototype.indexOf for one character, 1-based; 0 when absent
indexOfChar(s, c) ==
    IF \A i \in 1..Len(s) : s[i] # c THEN 0
    ELSE CHOOSE i \in 1..Len(s) : s[i] = c /\ \A j \in 1..(i - 1) : s[j] # c

RECURSIVE split(_)
\* String.prototype.split('\n')
split(s) ==
    LET i == indexOfChar(s, "\n")
    IN  IF i = 0 THEN <<s>>
        ELSE <<SubSeq(s, 1, i - 1)>> \o split(From(s, i + 1))

RECURSIVE join(_)
\* Array.prototype.join('\n')
join(lines) ==
    IF lines = <<>> THEN <<>>
    ELSE IF Len(lines) = 1 THEN lines[1]
    ELSE lines[1] \o <<"\n">> \o join(Tail(lines))

-----------------------------------------------------------------------------
(* block-parser.ts: values, regular expressions *)

\* a property value: typeof in t, and the text `${v}` gives in v
StringValue(s)  == [t |-> "string",  v |-> s]
BooleanValue(s) == [t |-> "boolean", v |-> s]
NumberValue(s)  == [t |-> "number",  v |-> s]
TrueText  == <<"t", "r", "u", "e">>
FalseText == <<"f", "a", "l", "s", "e">>

\* a faulty UUID_REGEX: any non-empty id value passes
UUID_REGEX_AcceptsAll(s) == Len(s) >= 1

\* /^[0-9a-f]{8}-[0-9a-f]{4}-[0-9a-f]{4}-[0-9a-f]{4}-[0-9a-f]{12}$/i .test(s)
UUID_REGEX(s) ==
    /\ Len(s) = 36
    /\ \A i \in 1..36 : IF i \in {9, 14, 19, 24} THEN s[i] = "-" ELSE s[i] \in HexChars

\* line.match(/^(\t*)-\s+(.*)$/): [ok, level (length of group 1), content (group 2)]
BlockStartMatch(line) ==
    LET t    == LeadingCount(line, {"\t"})
        w    == LeadingCount(From(line, t + 2), WhiteSpace)
        rest == From(line, t + 2 + w)
    IN  IF /\ Len(line) >= t + 2
           /\ line[t + 1] = "-"
           /\ w >= 1
           /\ NoLineTerminator(rest)
        THEN [ok |-> TRUE, level |-> t, content |-> rest]
        ELSE [ok |-> FALSE, level |-> 0, content |-> <<>>]

\* s.match(/^([a-zA-Z0-9_-]+)::\s*(.*)$/): [ok, key (group 1), value (group 2)]
PROPERTY_REGEX(s) ==
    LET k    == LeadingCount(s, KeyChars)
        rest == From(s, SkipWs(s, k + 3))
    IN  IF /\ k >= 1
           /\ Len(s) >= k + 2
           /\ s[k + 1] = ":"
           /\ s[k + 2] = ":"
           /\ NoLineTerminator(rest)
        THEN [ok |-> TRUE, key |-> SubSeq(s, 1, k), value |-> rest]
        ELSE [ok |-> FALSE, key |-> <<>>, value |-> <<>>]

\* /^-?\d+(\.\d+)?$/ .test(t)
IsNumeric(t) ==
    LET u   == IF Len(t) >= 1 /\ t[1] = "-" THEN Tail(t) ELSE t
        n   == LeadingCount(u, Digits)
        fr  == From(u, n + 2)
    IN  /\ n >= 1
        /\ \/ n = Len(u)
           \/ /\ u[n + 1] = "."
              /\ Len(fr) >= 1
              /\ \A i \in 1..Len(fr) : fr[i] \in Digits

\* String(Number(t)) for a t that IsNumeric accepts and a double holds exactly:
\* no leading zeros, no trailing zeros of the fraction, no sign on zero
NumberText(t) ==
    LET neg  == Len(t) >= 1 /\ t[1] = "-"
        u    == IF neg THEN Tail(t) ELSE t
        n    == LeadingCount(u, Digits)
        ip   == SubSeq(u, 1, n)
        z    == Min(LeadingCount(ip, {"0"}), n - 1)
        int  == From(ip, z + 1)
        fr   == From(u, n + 2)
        frac == SubSeq(fr, 1, Len(fr) - TrailingCount(fr, {"0"}))
        mag  == IF frac = <<>> THEN int ELSE int \o <<".">> \o frac
    IN  IF neg /\ mag # <<"0">> THEN <<"-">> \o mag ELSE mag

parsePropertyValue(v) ==
    LET t == trim(v)
    IN  IF t = TrueText THEN BooleanValue(TrueText)
        ELSE IF t = FalseText THEN BooleanValue(FalseText)
        ELSE IF IsNumeric(t) THEN NumberValue(NumberText(t))
        ELSE StringValue(t)

\* properties[key] = value on a JavaScript object whose keys are not array
\* indices: an existing key keeps its place, a new key goes last
SetProperty(props, key, value) ==
    IF \E i \in 1..Len(props) : props[i].k = key
    THEN [i \in 1..Len(props) |->
            IF props[i].k = key THEN [k |-> key, v |-> value] ELSE props[i]]
    ELSE Append(props, [k |-> key, v |-> value])
HasProperty(props, key) == \E i \in 1..Len(props) : props[i].k = key
GetProperty(props, key) == props[CHOOSE i \in 1..Len(props) : props[i].k = key].v
\* const { id: _id, ...rest } = props
WithoutProperty(props, key) == SelectSeq(props, LAMBDA p : p.k # key)
IdKey == <<"i", "d">>

-----------------------------------------------------------------------------
(* block-parser.ts: task markers *)

TASK_MARKERS == <<
    <<"T", "O", "D", "O">>,
    <<"D", "O", "I", "N", "G">>,
    <<"D", "O", "N", "E">>,
    <<"L", "A", "T", "E", "R">>,
    <<"N", "O", "W">>,
    <<"C", "A", "N", "C", "E", "L", "E", "D">>,
    <<"C", "A", "N", "C", "E", "L", "L", "E", "D">>,
    <<"I", "N", "-", "P", "R", "O", "G", "R", "E", "S", "S">>,
    <<"W", "A", "I", "T">>,
    <<"W", "A", "I", "T", "I", "N", "G">> >>
TaskMarkerSet == {TASK_MARKERS[i] : i \in 1..Len(TASK_MARKERS)}
CANCELED  == TASK_MARKERS[6]
CANCELLED == TASK_MARKERS[7]
WAIT      == TASK_MARKERS[9]
WAITING   == TASK_MARKERS[10]

\* the alternative (MARKER)\b of TASK_MARKER_REGEX matches at the start of s, i flag
MarkerAlternative(s, m) ==
    /\ Len(s) >= Len(m)
    /\ toUpperCase(SubSeq(s, 1, Len(m))) = m
    /\ (Len(s) = Len(m) \/ s[Len(m) + 1] \notin WordChars)

\* [ABC] under the i flag
PriorityClass == {"A", "B", "C", "a", "b", "c"}

NoTaskMatch == [ok |-> FALSE, marker |-> Absent, priority |-> Absent]

\* the rest of TASK_MARKER_REGEX after a marker of n characters and the
\* whitespace up to q: (?:\[#([ABC])\]\s*)?(.*)$
PriorityMatch(s, n, q) ==
    LET grp == /\ Len(s) >= q + 3
               /\ s[q] = "["
               /\ s[q + 1] = "#"
               /\ s[q + 2] \in PriorityClass
               /\ s[q + 3] = "]"
    IN  IF NoLineTerminator(From(s, IF grp THEN SkipWs(s, q + 4) ELSE q))
        THEN [ok |-> TRUE, marker |-> SubSeq(s, 1, n),
              priority |-> IF grp THEN <<s[q + 2]>> ELSE Absent]
        ELSE NoTaskMatch

\* the rest of TASK_MARKER_REGEX after a marker of n characters: \s*...
AfterMarkerMatch(s, n) == PriorityMatch(s, n, SkipWs(s, n + 1))

\* s.match(TASK_MARKER_REGEX): [ok, marker (group 1), priority (group 2 or Absent)]
TASK_MARKER_REGEX(s) ==
    LET alts == {i \in 1..Len(TASK_MARKERS) : MarkerAlternative(s, TASK_MARKERS[i])}
    IN  IF alts = {} THEN NoTaskMatch
        ELSE AfterMarkerMatch(s, Len(TASK_MARKERS[CHOOSE i \in alts : \A j \in alts : i <= j]))

\* a faulty normalization: the two spellings are not normalized
NormalizeMarker_None(marker) == marker

\* CANCELLED -> CANCELED, WAITING -> WAIT
NormalizeMarker(marker) ==
    IF marker = CANCELLED THEN CANCELED
    ELSE IF marker = WAITING THEN WAIT
    ELSE marker

\* parseTaskFromContent, from the match on
TaskOfMatch(match, normalizedMarker) ==
    IF ~match.ok THEN [marker |-> Absent, priority |-> Absent]
    ELSE IF normalizedMarker \notin TaskMarkerSet
    THEN [marker |-> Absent, priority |-> Absent]
    ELSE [marker |-> normalizedMarker, priority |-> match.priority]
TaskOf(match) == TaskOfMatch(match, NormalizeMarker(toUpperCase(match.marker)))

parseTaskFromContent(content) == TaskOf(TASK_MARKER_REGEX(trim(content)))

-----------------------------------------------------------------------------
(* block-parser.ts: parseBlocks, buildBlockTree, flattenBlocks, serializeBlocks *)

HexLowerSeq == <<"0", "1", "2", "3", "4", "5", "6", "7",
                 "8", "9", "a", "b", "c", "d", "e", "f">>

\* uuidv4(), as the n-th call of a run returns it: a random version-4 UUID in
\* lower case; two calls of one run do not return the same value
uuidv4(n) ==
    Repeat("f", 8) \o <<"-">> \o Repeat("f", 4) \o <<"-", "4">> \o Repeat("f", 3)
        \o <<"-", "8">> \o Repeat("f", 3) \o <<"-">> \o Repeat("f", 11)
        \o <<HexLowerSeq[(n % 16) + 1]>>

\* A forest is an arena: nodes in creation order, children and roots as
\* sequences of node indices (the object references of the source).
EmptyForest == [nodes |-> <<>>, roots |-> <<>>]

\* the pop loop with `>` for `>=`: a block of the top's level stays under it
PopStack_KeepEqual(stack, nodes, level) ==
    SubSeq(stack, 1,
           CHOOSE i \in 0..Len(stack) :
               /\ \A j \in (i + 1)..Len(stack) : nodes[stack[j]].level > level
               /\ i > 0 => nodes[stack[i]].level <= level)

RECURSIVE PopStack(_, _, _)
\* while (stack.length > 0 && stack[stack.length - 1].level >= level) stack.pop()
PopStack(stack, nodes, level) ==
    IF stack # <<>> /\ nodes[stack[Len(stack)]].level >= level
    THEN PopStack(SubSeq(stack, 1, Len(stack) - 1), nodes, level)
    ELSE stack

\* typeof item.properties.id === 'string' && UUID_REGEX.test(item.properties.id)
IdOk(props) ==
    /\ HasProperty(props, IdKey)
    /\ GetProperty(props, IdKey).t = "string"
    /\ UUID_REGEX(GetProperty(props, IdKey).v)

\* the block of an item, before it is attached
NewBlock(item, uuid, task, sourcePath) ==
    [uuid       |-> uuid,
     content    |-> item.content,
     level      |-> item.level,
     properties |-> WithoutProperty(item.properties, IdKey),
     children   |-> <<>>,
     sourcePath |-> sourcePath,
     marker     |-> task.marker,
     priority   |-> task.priority,
     parentUuid |-> Absent]

\* the block attached under the top of the popped stack, or as a root, and pushed
AttachBlock(st, stack, block, generated) ==
    [nodes |-> IF stack # <<>>
               THEN Append([st.nodes EXCEPT ![stack[Len(stack)]].children =
                                Append(@, Len(st.nodes) + 1)],
                           [block EXCEPT !.parentUuid = st.nodes[stack[Len(stack)]].uuid])
               ELSE Append(st.nodes, block),
     roots |-> IF stack # <<>> THEN st.roots ELSE Append(st.roots, Len(st.nodes) + 1),
     stack |-> Append(stack, Len(st.nodes) + 1),
     calls |-> st.calls + generated]

\* one iteration of buildBlockTree's loop
BuildStep(st, item, sourcePath) ==
    AttachBlock(st,
                PopStack(st.stack, st.nodes, item.level),
                NewBlock(item,
                         IF IdOk(item.properties)
                         THEN GetProperty(item.properties, IdKey).v
                         ELSE uuidv4(st.calls + 1),
                         parseTaskFromContent(item.content),
                         sourcePath),
                IF IdOk(item.properties) THEN 0 ELSE 1)

RECURSIVE BuildFrom(_, _, _, _)
\* the loop goes on with the state st the iteration for items[k] left, which
\* holds one block per item taken
BuildNext(items, k, st, sourcePath) ==
    IF Len(st.nodes) = k THEN BuildFrom(items, k + 1, st, sourcePath) ELSE st

\* for (const item of items), from items[k] on
BuildFrom(items, k, st, sourcePath) ==
    IF k > Len(items) THEN st
    ELSE BuildNext(items, k, BuildStep(st, items[k], sourcePath), sourcePath)

BuildResult(st) ==
    [forest |-> [nodes |-> st.nodes, roots |-> st.roots], calls |-> st.calls]

\* [forest, calls]: the forest built, and the number of uuidv4() calls after it
buildBlockTree(items, sourcePath, calls) ==
    BuildResult(BuildFrom(items, 1,
                          [nodes |-> <<>>, roots |-> <<>>, stack |-> <<>>, calls |-> calls],
                          sourcePath))

RECURSIVE ConsumeProperties(_, _, _, _, _)
\* one iteration of the inner while loop of parseBlocks, at line i
ConsumeStep(lines, i, level, properties, propLines, nextIndent, blank, propMatch) ==
    IF nextIndent <= level /\ ~blank
    THEN [i |-> i, properties |-> properties, propLines |-> propLines]
    ELSE IF propMatch.ok /\ nextIndent > level
    THEN ConsumeProperties(lines, i + 1, level,
             SetProperty(properties, propMatch.key, parsePropertyValue(propMatch.value)),
             Append(propLines, [key |-> propMatch.key, value |-> propMatch.value]))
    ELSE [i |-> i, properties |-> properties, propLines |-> propLines]

\* the inner while loop of parseBlocks, from line i on; propLines records the
\* (key, value) groups of the lines consumed, in order
ConsumeProperties(lines, i, level, properties, propLines) ==
    IF i > Len(lines) THEN [i |-> i, properties |-> properties, propLines |-> propLines]
    ELSE ConsumeStep(lines, i, level, properties, propLines,
                     LeadingCount(lines[i], {"\t"}),
                     trim(lines[i]) = <<>>,
                     PROPERTY_REGEX(trim(lines[i])))

RECURSIVE ParseItems(_, _, _)
\* the block-start branch of the outer loop: the item of line i - 1 and its
\* property lines c, then the loop goes on after them
ItemStep(lines, items, match, c) ==
    ParseItems(lines, c.i,
               Append(items, [level      |-> match.level,
                              content    |-> trim(match.content),
                              properties |-> c.properties,
                              propLines  |-> c.propLines]))

\* one iteration of the outer while loop of parseBlocks, at line i
LineStep(lines, i, items, match) ==
    IF match.ok
    THEN ItemStep(lines, items, match,
                  ConsumeProperties(lines, i + 1, match.level, <<>>, <<>>))
    ELSE ParseItems(lines, i + 1, items)

\* the outer while loop of parseBlocks, from line i on
ParseItems(lines, i, items) ==
    IF i > Len(lines) THEN items
    ELSE LineStep(lines, i, items, BlockStartMatch(lines[i]))

\* the items parseBlocks hands to buildBlockTree
parseItems(content) == ParseItems(split(content), 1, <<>>)

parseBlocks(content, sourcePath, calls) ==
    buildBlockTree(parseItems(content), sourcePath, calls)

RECURSIVE flattenVisit(_, _)
\* visit(b) for each b of idxs, in order
flattenVisit(f, idxs) ==
    IF idxs = <<>> THEN <<>>
    ELSE <<Head(idxs)>> \o flattenVisit(f, f.nodes[Head(idxs)].children)
             \o flattenVisit(f, Tail(idxs))
\* the blocks of the forest depth-first, as node indices
flattenBlocks(f) == flattenVisit(f, f.roots)

\* the index of the first block with that uuid in the flat list, 0 for null
findBlockByUuid(f, uuid) ==
    LET flat == flattenBlocks(f)
        hits == {i \in 1..Len(flat) : f.nodes[flat[i]].uuid = uuid}
    IN  IF hits = {} THEN 0 ELSE flat[CHOOSE i \in hits : \A j \in hits : i <= j]

\* `${k}:: ${v}`
PropertyLine(p) == p.k \o <<":", ":", " ">> \o p.v.v
IdLine(uuid) == <<"i", "d", ":", ":", " ">> \o uuid

RECURSIVE serializeVisit(_, _, _)
\* visit(b, indent) for each b of idxs, in order: the lines pushed
serializeVisit(f, idxs, indent) ==
    IF idxs = <<>> THEN <<>>
    ELSE
    LET b         == f.nodes[Head(idxs)]
        prefix    == Repeat("\t", indent) \o <<"-", " ">>
        propLines == (IF b.uuid # <<>> THEN <<IdLine(b.uuid)>> ELSE <<>>)
                     \o [i \in 1..Len(b.properties) |-> PropertyLine(b.properties[i])]
    IN  <<prefix \o trim(b.content)>>
        \o [i \in 1..Len(propLines) |-> Repeat("\t", indent + 1) \o propLines[i]]
        \o serializeVisit(f, b.children, indent + 1)
        \o serializeVisit(f, Tail(idxs), indent)

serializeBlocks(f) == join(serializeVisit(f, f.roots, 0))

-----------------------------------------------------------------------------
(* The parser's inputs *)

\* the UUID whose hex digits are all c
UuidOf(c) ==
    Repeat(c, 8) \o <<"-">> \o Repeat(c, 4) \o <<"-">> \o Repeat(c, 4)
        \o <<"-">> \o Repeat(c, 4) \o <<"-">> \o Repeat(c, 12)
Uuid1 == UuidOf("1")
Uuid2 == UuidOf("2")
UuidUpperA == UuidOf("A")

ParentBlockText == <<"P", "a", "r", "e", "n", "t", " ", "b", "l", "o", "c", "k">>
ChildBlockText  == <<"C", "h", "i", "l", "d", " ", "b", "l", "o", "c", "k">>
IdPrefix == <<"i", "d", ":", ":", " ">>

\* the lines a body is made of
LineParent      == <<"-", " ">> \o ParentBlockText
LineIdSpaces1   == <<" ", " ">> \o IdPrefix \o Uuid1
LineChild       == <<"\t", "-", " ">> \o ChildBlockText
LineIdTabSp2    == <<"\t", " ", " ">> \o IdPrefix \o Uuid2
LineIdUpper     == <<"\t">> \o IdPrefix \o UuidUpperA
LineIdInvalid   == <<"\t">> \o IdPrefix \o <<"z", "z">>
LineDeep        == <<"\t", "\t", "-", " ", "D", "e", "e", "p">>
LineBlank       == <<>>
LineProperty    == <<"\t", "k", ":", ":", " ", "0", "7">>
LinePadded      == <<"-", "\t", " ", "x", " ">>
Lines == {LineParent, LineIdSpaces1, LineChild, LineIdTabSp2, LineIdUpper,
          LineIdInvalid, LineDeep, LineBlank, LineProperty, LinePadded}

\* the largest number of lines of a body drawn from Lines
MaxLines == 3

BodiesOfLines == UNION {[1..n -> Lines] : n \in 1..MaxLines}

\* the documented four-line page: a parent and a child, each with its id
ScenarioLines == <<LineParent, LineIdSpaces1, LineChild, LineIdTabSp2>>

\* block contents that exercise the task syntax: word, what follows it, an
\* optional priority bracket, the rest
TaskWords == {<<"T", "O", "D", "O">>,
              <<"D", "O", "I", "N", "G">>,
              <<"C", "A", "N", "C", "E", "L", "L", "E", "D">>,
              <<"W", "A", "I", "T", "I", "N", "G">>,
              <<"W", "A", "I", "T">>,
              <<"I", "N", "-", "P", "R", "O", "G", "R", "E", "S", "S">>,
              <<"t", "o", "d", "o">>,
              <<"N", "o", "w">>,
              <<"D", "o", "n", "e">>,
              <<"S", "h", "i", "p">>}
TaskAfterWord == {<<>>, <<" ">>, <<"S">>, <<"-">>}
TaskBrackets == {<<>>, <<"[", "#", "A", "]">>, <<"[", "#", "a", "]">>, <<"[", "#", "B", "]">>, <<"[", "#", "D", "]">>}
TaskRests == {<<>>, <<" ", "S", "h", "i", "p", " ", "t", "h", "e", " ", "r", "e", "l", "e", "a", "s", "e">>}
TaskContents ==
    {w \o a \o b \o r : w \in TaskWords, a \in TaskAfterWord,
                        b \in TaskBrackets, r \in TaskRests}
    \cup {<<"[", "#", "A", "]", " ", "T", "O", "D", "O", " ", "x">>}
DoingShipContent == <<"D", "O", "I", "N", "G", " ", "[", "#", "A", "]", " ", "S", "h", "i", "p", " ", "t", "h", "e", " ", "r", "e", "l", "e", "a", "s", "e">>

Bodies ==
    {join(ls) : ls \in BodiesOfLines}
    \cup {join(ScenarioLines)}
    \cup {<<"-", " ">> \o c : c \in TaskContents}

SourcePath == "pages/a.md"

-----------------------------------------------------------------------------
(* The parser's state machine: a caller parses a body, serializes the forest
   and parses the regenerated text *)

ParserInit ==
    /\ body \in Bodies
    /\ pc = "input"
    /\ forest = EmptyForest
    /\ text = <<>>
    /\ forest2 = EmptyForest
    /\ uuidCalls = 0

Parse ==
    /\ pc = "input"
    /\ \E r \in {parseBlocks(body, SourcePath, uuidCalls)} :
           forest' = r.forest /\ uuidCalls' = r.calls
    /\ pc' = "parsed"
    /\ UNCHANGED <<body, text, forest2>>

Serialize ==
    /\ pc = "parsed"
    /\ text' = serializeBlocks(forest)
    /\ pc' = "serialized"
    /\ UNCHANGED <<body, forest, forest2, uuidCalls>>

Reparse ==
    /\ pc = "serialized"
    /\ \E r \in {parseBlocks(text, SourcePath, uuidCalls)} :
           forest2' = r.forest /\ uuidCalls' = r.calls
    /\ pc' = "reparsed"
    /\ UNCHANGED <<body, forest, text>>

\* the other components, when a specification does not exercise them
ParserIdle ==
    /\ body = <<>> /\ pc = "idle" /\ forest = EmptyForest /\ text = <<>>
    /\ forest2 = EmptyForest /\ uuidCalls = 0
RefIdle ==
    /\ refParts = <<>> /\ refContent = <<>> /\ lookup = <<>> /\ rpc = "idle"
    /\ syncResult = <<>> /\ refs = <<>> /\ refIdx = 0 /\ inFlight = {}
    /\ lookups = <<>> /\ result = <<>>
SearchIdle ==
    /\ query = <<>> /\ limit = 0 /\ options = <<>> /\ files = <<>> /\ listed = FALSE
    /\ readFiles = <<>> /\ fileIdx = 0 /\ results = <<>> /\ searchError = ""
    /\ spc = "idle"

TaskIdle ==
    /\ taskArgs = <<>> /\ taskParams = <<>> /\ taskFiles = <<>> /\ taskIdx = 0
    /\ taskResults = <<>> /\ tpc = "idle"

FsIdle ==
    /\ disk = <<>> /\ diskBefore = <<>> /\ fsCall = <<>> /\ fsReturn = <<>>
    /\ fsAccess = {} /\ fsUuids = 0 /\ fsCalls = 0

ExcerptIdle == exBlock = <<>> /\ exParams = <<>> /\ exPushed = <<>>
RegexIdle == reLastIndex = 0 /\ hbContent = <<>> /\ hbReturns = <<>>
StatsIdle ==
    /\ stTree = <<>> /\ stCount = 0 /\ stIdx = 0 /\ stRecent = <<>>
    /\ stTotals = <<>> /\ stpc = "idle"
LaterIdle == ExcerptIdle /\ RegexIdle /\ StatsIdle

InitParser == ParserInit /\ RefIdle /\ SearchIdle /\ TaskIdle /\ FsIdle /\ LaterIdle
NextParser ==
    \/ Parse /\ UNCHANGED <<refVars, searchVars, taskVars, fsVars, laterVars>>
    \/ Serialize /\ UNCHANGED <<refVars, searchVars, taskVars, fsVars, laterVars>>
    \/ Reparse /\ UNCHANGED <<refVars, searchVars, taskVars, fsVars, laterVars>>
SpecParser == InitParser /\ [][NextParser]_vars

-----------------------------------------------------------------------------
(* Properties of the parser and the serializer *)

\* the 8-4-4-4-12 hex UUID pattern, as the specification words it
MatchesUuidPattern(s) ==
    /\ Len(s) = 36
    /\ \A i \in {9, 14, 19, 24} : s[i] = "-"
    /\ \A i \in (1..36) \ {9, 14, 19, 24} :
           toLowerCase(<<s[i]>>)[1] \in {HexLowerSeq[j] : j \in 1..16}

Parsed == pc # "input"

\* C1: round trip. For the forest F that parseBlocks returns,
\* parseBlocks(serializeBlocks(F)) has the same number of blocks in pre-order,
\* and the i-th block has the level, the content and the uuid of the i-th of F.
C1_RoundTrip ==
    pc = "reparsed" =>
        LET a == flattenBlocks(forest)
            b == flattenBlocks(forest2)
        IN  /\ Len(a) = Len(b)
            /\ \A i \in 1..Len(a) :
                   /\ forest2.nodes[b[i]].level = forest.nodes[a[i]].level
                   /\ forest2.nodes[b[i]].content = forest.nodes[a[i]].content
                   /\ forest2.nodes[b[i]].uuid = forest.nodes[a[i]].uuid

\* a line that is indented (by tabs or spaces) and reads `id:: <valid UUID>`
IsIndentedIdLine(line, uuid) ==
    /\ Len(line) >= 1
    /\ line[1] \in {" ", "\t"}
    /\ trim(line) = IdPrefix \o uuid
    /\ MatchesUuidPattern(uuid)

\* the indices of the block-start lines of a body, in order
BlockStartLines(ls) ==
    LET idx == {i \in 1..Len(ls) : BlockStartMatch(ls[i]).ok}
    IN  [k \in 1..Cardinality(idx) |->
            CHOOSE i \in idx : Cardinality({j \in idx : j < i}) = k - 1]

\* C2: the documented four-line page parses to one root with uuid 1111..., level
\* 0, with one child with uuid 2222..., level 1, whose parentUuid is the root's
\* uuid; and an indented `id:: <valid UUID>` line directly after a block-start
\* line supplies that block's uuid.
C2_Scenario ==
    Parsed =>
        /\ body = join(ScenarioLines) =>
               /\ Len(forest.roots) = 1
               /\ Len(forest.nodes) = 2
               /\ LET root == forest.nodes[forest.roots[1]]
                  IN  /\ root.uuid = Uuid1
                      /\ root.level = 0
                      /\ Len(root.children) = 1
                      /\ LET child == forest.nodes[root.children[1]]
                         IN  /\ child.uuid = Uuid2
                             /\ child.level = 1
                             /\ child.parentUuid = root.uuid
        /\ LET ls     == split(body)
               starts == BlockStartLines(ls)
           IN  \A k \in 1..Len(starts) :
                   \A u \in {Uuid1, Uuid2, UuidUpperA} :
                       (starts[k] < Len(ls) /\ IsIndentedIdLine(ls[starts[k] + 1], u))
                           => forest.nodes[k].uuid = u

\* C3: in the forest parseBlocks returns, each child's level is its parent's
\* level + 1, and the parent comes earlier in document order.
C3_ChildLevel ==
    Parsed =>
        LET flat == flattenBlocks(forest)
            pos(n) == CHOOSE i \in 1..Len(flat) : flat[i] = n
        IN  \A p \in 1..Len(forest.nodes) :
                \A j \in 1..Len(forest.nodes[p].children) :
                    LET c == forest.nodes[p].children[j]
                    IN  /\ forest.nodes[c].level = forest.nodes[p].level + 1
                        /\ pos(p) < pos(c)

\* the uuids uuidv4() has returned so far
Generated == {uuidv4(n) : n \in 1..uuidCalls}
\* the values of the `id` lines among the property lines an item consumed
IdValues(item) ==
    LET idx == SelectSeq([j \in 1..Len(item.propLines) |-> j],
                         LAMBDA j : item.propLines[j].key = IdKey)
    IN  [j \in 1..Len(idx) |-> trim(item.propLines[idx[j]].value)]

\* C4 as stated: whenever the property lines a block consumed contain an `id`
\* with a valid UUID value, the block's uuid is that value.
C4_AnyIdLine ==
    Parsed =>
        LET items == parseItems(body)
        IN  \A k \in 1..Len(items) :
                \A j \in 1..Len(IdValues(items[k])) :
                    MatchesUuidPattern(IdValues(items[k])[j])
                        => forest.nodes[k].uuid = IdValues(items[k])[j]

\* C4, amended: the `id` property is the last `id` line the block consumed. If
\* its value is a valid UUID the block's uuid is that value; otherwise (no id
\* line, or a malformed last one) the uuid is one uuidv4() generated. In every
\* case the uuid matches the UUID pattern and the properties have no `id` key.
C4_LastIdLine ==
    Parsed =>
        LET items == parseItems(body)
        IN  /\ Len(forest.nodes) = Len(items)
            /\ \A k \in 1..Len(items) :
                   LET ids  == IdValues(items[k])
                       node == forest.nodes[k]
                   IN  /\ IF ids # <<>> /\ MatchesUuidPattern(ids[Len(ids)])
                          THEN node.uuid = ids[Len(ids)]
                          ELSE node.uuid \in Generated
                       /\ MatchesUuidPattern(node.uuid)
                       /\ \A i \in 1..Len(node.properties) :
                              node.properties[i].k # IdKey

\* a block consumed a malformed id line and then a valid one, and took the
\* valid one
C4_Witness ==
    /\ pc = "parsed"
    /\ \E k \in 1..Len(forest.nodes) :
           LET ids == IdValues(parseItems(body)[k])
           IN  /\ Len(ids) = 2
               /\ ~MatchesUuidPattern(ids[1])
               /\ ids[2] = UuidUpperA
               /\ forest.nodes[k].uuid = UuidUpperA

\* s starts with the word m: m, then the end or a character that is not a word
\* character
StartsWithWord(s, m) ==
    /\ Len(s) >= Len(m)
    /\ SubSeq(s, 1, Len(m)) = m
    /\ (Len(s) = Len(m) \/ s[Len(m) + 1] \notin WordChars)
\* the same, letter case ignored
StartsWithWordAnyCase(s, m) ==
    /\ Len(s) >= Len(m)
    /\ toLowerCase(SubSeq(s, 1, Len(m))) = toLowerCase(m)
    /\ (Len(s) = Len(m) \/ s[Len(m) + 1] \notin WordChars)
\* the canonical marker of a marker word
Canonical(m) ==
    IF m = CANCELLED THEN CANCELED ELSE IF m = WAITING THEN WAIT ELSE m

\* C5 as stated: content that starts with one of the marker words TODO, DOING,
\* DONE, LATER, NOW, CANCELED, CANCELLED, IN-PROGRESS, WAIT, WAITING carries
\* that marker (canonical spelling) and keeps its text; content that does not
\* start with such a word carries no marker.
C5_MarkerWords ==
    Parsed =>
        LET items == parseItems(body)
        IN  \A k \in 1..Len(forest.nodes) :
                LET node == forest.nodes[k]
                IN  /\ node.content = items[k].content
                    /\ \A m \in TaskMarkerSet :
                           StartsWithWord(node.content, m) => node.marker = Canonical(m)
                    /\ (\A m \in TaskMarkerSet : ~StartsWithWord(node.content, m))
                           => node.marker = Absent

\* C5, amended: the marker words are recognized in any letter case. Content
\* that starts with a marker word in any letter case carries that marker, in
\* upper case and canonical spelling, and keeps its text; content that starts
\* with no marker word in any letter case carries no marker.
C5_MarkerWordsAnyCase ==
    Parsed =>
        LET items == parseItems(body)
        IN  \A k \in 1..Len(forest.nodes) :
                LET node == forest.nodes[k]
                IN  /\ node.content = items[k].content
                    /\ node.content = DoingShipContent
                           => /\ node.marker = TASK_MARKERS[2]
                              /\ node.priority = <<"A">>
                    /\ \A m \in TaskMarkerSet :
                           StartsWithWordAnyCase(node.content, m)
                               => node.marker = Canonical(m)
                    /\ (\A m \in TaskMarkerSet : ~StartsWithWordAnyCase(node.content, m))
                           => node.marker = Absent

\* `DOING [#A] Ship the release` was parsed, and so was a CANCELLED block
C5_Witness ==
    /\ pc = "parsed"
    /\ \E k \in 1..Len(forest.nodes) :
           /\ forest.nodes[k].content = DoingShipContent
           /\ forest.nodes[k].marker = TASK_MARKERS[2]

\* C6: a task priority is one of the upper-case letters A, B, C, taken from a
\* [#X] bracket right after a recognized marker at the start of the content; a
\* block without a marker carries no priority.
C6_PriorityABC ==
    Parsed =>
        \A k \in 1..Len(forest.nodes) :
            LET node == forest.nodes[k]
            IN  node.priority # Absent =>
                    /\ node.priority \in {<<"A">>, <<"B">>, <<"C">>}
                    /\ node.marker # Absent
                    /\ \E m \in TaskMarkerSet :
                           /\ StartsWithWordAnyCase(node.content, m)
                           /\ LET q == SkipWs(node.content, Len(m) + 1)
                              IN  SubSeq(node.content, q, q + 3)
                                      = <<"[", "#">> \o node.priority \o <<"]">>

\* the blocks before block n in source order whose level is strictly smaller
SmallerBefore(f, n) == {m \in 1..(n - 1) : f.nodes[m].level < f.nodes[n].level}
\* the nearest of them
NearestSmaller(f, n) == CHOOSE m \in SmallerBefore(f, n) : \A k \in SmallerBefore(f, n) : k <= m
ChildrenSet(f, p) == {f.nodes[p].children[j] : j \in 1..Len(f.nodes[p].children)}
RootSet(f) == {f.roots[j] : j \in 1..Len(f.roots)}

\* C20: in the forest parseBlocks returns, each block's parent is the nearest
\* preceding block of strictly smaller level, with parentUuid that block's
\* uuid; a block with no such block before it is a root without parentUuid;
\* no block is a child of a block of equal or greater level.
C20_NearestSmaller ==
    Parsed =>
        \A n \in 1..Len(forest.nodes) :
            /\ IF SmallerBefore(forest, n) = {}
               THEN /\ n \in RootSet(forest)
                    /\ forest.nodes[n].parentUuid = Absent
                    /\ \A p \in 1..Len(forest.nodes) : n \notin ChildrenSet(forest, p)
               ELSE /\ n \notin RootSet(forest)
                    /\ \A p \in 1..Len(forest.nodes) :
                           n \in ChildrenSet(forest, p) <=> p = NearestSmaller(forest, n)
                    /\ forest.nodes[n].parentUuid =
                           forest.nodes[NearestSmaller(forest, n)].uuid
            /\ \A c \in ChildrenSet(forest, n) :
                   forest.nodes[n].level < forest.nodes[c].level
\* a parsed page where a block's parent is not the block just before it, and
\* a block of the same level as the one before it is not its child
C20_Witness ==
    /\ Parsed
    /\ \E n \in 1..Len(forest.nodes) :
           /\ SmallerBefore(forest, n) # {}
           /\ NearestSmaller(forest, n) < n - 1
           /\ forest.nodes[n - 1].level >= forest.nodes[n].level
           /\ n \in ChildrenSet(forest, NearestSmaller(forest, n))

-----------------------------------------------------------------------------
(* block-ref.ts: extractBlockRefs, resolveBlockRefs, resolveBlockRefsAsync *)

OpenParens  == <<"(", "(">>
CloseParens == <<")", ")">>

\* /^[0-9a-f]{8}-[0-9a-f]{4}-[0-9a-f]{4}-[0-9a-f]{4}-[0-9a-f]{12}$/i .test(uuid)
isValidBlockUuid(uuid) ==
    /\ Len(uuid) = 36
    /\ \A i \in 1..36 : IF i \in {9, 14, 19, 24} THEN uuid[i] = "-" ELSE uuid[i] \in HexChars

\* BLOCK_REF_REGEX matches at position i of s: a token of 40 characters
BLOCK_REF_REGEX(s, i) ==
    /\ Len(s) >= i + 39
    /\ SubSeq(s, i, i + 1) = OpenParens
    /\ isValidBlockUuid(SubSeq(s, i + 2, i + 37))
    /\ SubSeq(s, i + 38, i + 39) = CloseParens

\* a faulty template: the id is written in lower case
RefToken_Lower(uuid) == OpenParens \o toLowerCase(uuid) \o CloseParens

\* `((${uuid}))`
RefToken(uuid) == OpenParens \o uuid \o CloseParens

\* a lookup's answers: null, or a block with its content
Null == [found |-> FALSE, content |-> <<>>]
Block(content) == [found |-> TRUE, content |-> content]

\* the position of the first match of BLOCK_REF_REGEX in s at or after
\* lastIndex, 0 when there is none
FirstRef(s, lastIndex) ==
    LET found == {k \in lastIndex..Len(s) : BLOCK_REF_REGEX(s, k)}
    IN  IF found = {} THEN 0 ELSE CHOOSE k \in found : \A j \in found : k <= j

RECURSIVE ExecAll(_, _, _)
\* uuids.push(m[1].toLowerCase()) for the match at m, 0 for null
ExecStep(s, uuids, m) ==
    IF m = 0 THEN uuids
    ELSE ExecAll(s, m + 40, Append(uuids, toLowerCase(SubSeq(s, m + 2, m + 37))))

\* while ((m = re.exec(content)) !== null) ..., with re.lastIndex = lastIndex
ExecAll(s, lastIndex, uuids) == ExecStep(s, uuids, FirstRef(s, lastIndex))

RECURSIVE SetOrder(_, _)
\* [...new Set(uuids)]: the distinct values in insertion order
SetOrder(uuids, out) ==
    IF uuids = <<>> THEN out
    ELSE SetOrder(Tail(uuids),
                  IF \E k \in 1..Len(out) : out[k] = Head(uuids)
                  THEN out ELSE Append(out, Head(uuids)))

\* a faulty extractBlockRefs: the ids are not deduplicated
extractBlockRefs_NoDedup(content) == ExecAll(content, 1, <<>>)

extractBlockRefs(content) == SetOrder(ExecAll(content, 1, <<>>), <<>>)

\* the callback of resolveBlockRefs, for the captured uuid
SyncReplacement(resolveUuid, uuid) ==
    IF resolveUuid[uuid].found THEN resolveUuid[uuid].content ELSE RefToken(uuid)

RECURSIVE ReplaceRefs(_, _, _, _)
\* the text up to the match at m and the callback's replacement are appended
ReplaceRefStep(s, i, resolveUuid, out, m) ==
    IF m = 0 THEN out \o SubSeq(s, i, Len(s))
    ELSE ReplaceRefs(s, m + 40, resolveUuid,
                     out \o SubSeq(s, i, m - 1)
                         \o SyncReplacement(resolveUuid, SubSeq(s, m + 2, m + 37)))

\* content.replace(BLOCK_REF_REGEX, callback), from position i on
ReplaceRefs(s, i, resolveUuid, out) ==
    ReplaceRefStep(s, i, resolveUuid, out, FirstRef(s, i))

resolveBlockRefs(content, resolveUuid) == ReplaceRefs(content, 1, resolveUuid, <<>>)

\* new RegExp(`\\(\\(${uuid}\\)\\)`, 'gi') matches at position i of s
RefRegexAt(s, i, uuid) ==
    /\ Len(s) >= i + Len(uuid) + 3
    /\ SubSeq(s, i, i + 1) = OpenParens
    /\ toLowerCase(SubSeq(s, i + 2, i + Len(uuid) + 1)) = toLowerCase(uuid)
    /\ SubSeq(s, i + Len(uuid) + 2, i + Len(uuid) + 3) = CloseParens

\* the characters that follow $ in the replacement patterns of
\* String.prototype.replace: $$, $&, $ + backtick, $ + apostrophe
ReplacementPatterns == <<"$", "&", "`", "'">>

RECURSIVE GetSubstitution(_, _, _, _, _)
\* String.prototype.replace with a replacement string and a pattern without
\* groups: the four patterns are expanded, from position j of the replacement on
GetSubstitution(replacement, j, matched, before, after) ==
    IF j > Len(replacement) THEN <<>>
    ELSE IF replacement[j] = "$" /\ j < Len(replacement)
            /\ \E k \in 1..4 : replacement[j + 1] = ReplacementPatterns[k]
    THEN (CASE replacement[j + 1] = ReplacementPatterns[1] -> <<"$">>
            [] replacement[j + 1] = ReplacementPatterns[2] -> matched
            [] replacement[j + 1] = ReplacementPatterns[3] -> before
            [] OTHER -> after)
         \o GetSubstitution(replacement, j + 2, matched, before, after)
    ELSE <<replacement[j]>> \o GetSubstitution(replacement, j + 1, matched, before, after)

\* the position of the first match of the id's regex in s at or after i, 0
\* when there is none
FirstRefOf(s, i, uuid) ==
    LET found == {k \in i..Len(s) : RefRegexAt(s, k, uuid)}
    IN  IF found = {} THEN 0 ELSE CHOOSE k \in found : \A j \in found : k <= j

RECURSIVE ReplaceAll(_, _, _, _, _)
\* the text up to the match at m and the expanded replacement are appended
ReplaceAllStep(s, i, uuid, replacement, out, m) ==
    IF m = 0 THEN out \o SubSeq(s, i, Len(s))
    ELSE ReplaceAll(s, m + Len(uuid) + 4, uuid, replacement,
                    out \o SubSeq(s, i, m - 1)
                        \o GetSubstitution(replacement, 1,
                                           SubSeq(s, m, m + Len(uuid) + 3),
                                           SubSeq(s, 1, m - 1),
                                           SubSeq(s, m + Len(uuid) + 4, Len(s))))

\* result.replace(ref, replacement), from position i on
ReplaceAll(s, i, uuid, replacement, out) ==
    ReplaceAllStep(s, i, uuid, replacement, out, FirstRefOf(s, i, uuid))

\* block ? block.content : `((${uuid}))`
AsyncReplacement(block, uuid) == IF block.found THEN block.content ELSE RefToken(uuid)

-----------------------------------------------------------------------------
(* The resolver's inputs *)

UuidLowerA == UuidOf("a")
RefUuids == {Uuid1, UuidLowerA, UuidUpperA}

SeeText        == <<"S", "e", "e", " ">>
ForDetailsText == <<" ", "f", "o", "r", " ", "d", "e", "t", "a", "i", "l", "s">>
MalformedText  == <<"(", "(", "z", "z", ")", ")">>
DollarText     == <<"$", "&">>

\* a piece of content: a reference token or text without a token
TokenPart(uuid) == [token |-> TRUE, uuid |-> uuid, text |-> OpenParens \o uuid \o CloseParens]
TextPart(t)     == [token |-> FALSE, uuid |-> <<>>, text |-> t]
RefPartSet ==
    {TokenPart(u) : u \in RefUuids}
        \cup {TextPart(t) : t \in {SeeText, ForDetailsText, MalformedText}}

MaxParts == 3
RefPartSeqs == UNION {[1..n -> RefPartSet] : n \in 1..MaxParts}

RECURSIVE Concat(_)
Concat(parts) == IF parts = <<>> THEN <<>> ELSE Head(parts).text \o Concat(Tail(parts))

BlockContents == {ParentBlockText, DollarText}
LookupResults == {Null} \cup {Block(c) : c \in BlockContents}
Lookups == [RefUuids -> LookupResults]

-----------------------------------------------------------------------------
(* The resolver's state machine: a caller resolves the references of a content
   with resolveBlockRefs and with resolveBlockRefsAsync, whose loop suspends at
   each lookup *)

RefInit ==
    /\ refParts \in RefPartSeqs
    /\ refContent = Concat(refParts)
    /\ lookup \in Lookups
    /\ rpc = "start"
    /\ syncResult = [done |-> FALSE, value |-> <<>>]
    /\ refs = <<>>
    /\ refIdx = 0
    /\ inFlight = {}
    /\ lookups = <<>>
    /\ result = <<>>

\* resolveBlockRefs(content, lookup), called before or after the async variant
ResolveSync ==
    /\ rpc \in {"start", "done"}
    /\ ~syncResult.done
    /\ syncResult' = [done |-> TRUE, value |-> resolveBlockRefs(refContent, lookup)]
    /\ UNCHANGED <<refParts, refContent, lookup, rpc, refs, refIdx, inFlight, lookups, result>>

\* resolveBlockRefsAsync up to its loop
AsyncStart ==
    /\ rpc = "start"
    /\ refs' = extractBlockRefs(refContent)
    /\ result' = refContent
    /\ refIdx' = 1
    /\ rpc' = "loop"
    /\ UNCHANGED <<refParts, refContent, lookup, syncResult, inFlight, lookups>>

\* resolveUuid(uuid) is called and the function suspends at the await
AsyncCall ==
    /\ rpc = "loop"
    /\ refIdx <= Len(refs)
    /\ inFlight' = inFlight \cup {refs[refIdx]}
    /\ lookups' = Append(lookups, refs[refIdx])
    /\ rpc' = "awaiting"
    /\ UNCHANGED <<refParts, refContent, lookup, syncResult, refs, refIdx, result>>

\* the promise settles with block and the loop body finishes
AsyncReturn ==
    /\ rpc = "awaiting"
    /\ inFlight' = inFlight \ {refs[refIdx]}
    /\ result' = ReplaceAll(result, 1, refs[refIdx],
                            AsyncReplacement(lookup[refs[refIdx]], refs[refIdx]), <<>>)
    /\ refIdx' = refIdx + 1
    /\ rpc' = "loop"
    /\ UNCHANGED <<refParts, refContent, lookup, syncResult, refs, lookups>>

\* return result
AsyncDone ==
    /\ rpc = "loop"
    /\ refIdx > Len(refs)
    /\ rpc' = "done"
    /\ UNCHANGED <<refParts, refContent, lookup, syncResult, refs, refIdx, inFlight,
                   lookups, result>>

InitRefs == RefInit /\ ParserIdle /\ SearchIdle /\ TaskIdle /\ FsIdle /\ LaterIdle
NextRefs ==
    \/ ResolveSync /\ UNCHANGED <<parserVars, searchVars, taskVars, fsVars, laterVars>>
    \/ AsyncStart /\ UNCHANGED <<parserVars, searchVars, taskVars, fsVars, laterVars>>
    \/ AsyncCall /\ UNCHANGED <<parserVars, searchVars, taskVars, fsVars, laterVars>>
    \/ AsyncReturn /\ UNCHANGED <<parserVars, searchVars, taskVars, fsVars, laterVars>>
    \/ AsyncDone /\ UNCHANGED <<parserVars, searchVars, taskVars, fsVars, laterVars>>
SpecRefs == InitRefs /\ [][NextRefs]_vars

-----------------------------------------------------------------------------
(* Properties of the resolver *)

\* what a piece of content becomes: a token whose lookup finds a block becomes
\* the block's content, every other piece stays as it is
RECURSIVE ResolvedParts(_, _)
ResolvedParts(parts, lk) ==
    IF parts = <<>> THEN <<>>
    ELSE (IF Head(parts).token /\ lk[Head(parts).uuid].found
          THEN lk[Head(parts).uuid].content
          ELSE Head(parts).text)
         \o ResolvedParts(Tail(parts), lk)

ExampleParts == <<TextPart(SeeText), TokenPart(Uuid1), TextPart(ForDetailsText)>>

\* C7: resolveBlockRefs replaces every ((uuid)) token by the looked-up block's
\* content when the lookup returns a block and leaves it byte-identical
\* otherwise; the text outside tokens is unchanged. `See ((1111...)) for
\* details` gives `See Parent block for details` with a lookup returning
\* `Parent block`, and the input unchanged with a lookup returning nothing.
C7_SyncResolve ==
    syncResult.done =>
        /\ syncResult.value = ResolvedParts(refParts, lookup)
        /\ (refParts = ExampleParts /\ lookup[Uuid1] = Block(ParentBlockText))
               => syncResult.value = SeeText \o ParentBlockText \o ForDetailsText
        /\ (refParts = ExampleParts /\ lookup[Uuid1] = Null)
               => syncResult.value = refContent

\* a content with a resolved token and an unresolved token in upper case was resolved
C7_Witness ==
    /\ syncResult.done
    /\ \E i, j \in 1..Len(refParts) :
           /\ refParts[i].token /\ lookup[refParts[i].uuid].found
           /\ refParts[j].token /\ refParts[j].uuid = UuidUpperA
           /\ ~lookup[UuidUpperA].found
    /\ syncResult.value # refContent

Occurs(sub, s) == \E i \in 1..(Len(s) - Len(sub) + 1) : SubSeq(s, i, i + Len(sub) - 1) = sub

\* C8: resolveBlockRefsAsync leaves every reference token whose lookup returns
\* null byte-identical in the output, in its original casing; the output
\* equals the input when every lookup fails.
C8_AsyncVerbatim ==
    rpc = "done" =>
        /\ \A i \in 1..Len(refParts) :
               (refParts[i].token /\ ~lookup[toLowerCase(refParts[i].uuid)].found)
                   => Occurs(refParts[i].text, result)
        /\ (\A k \in 1..Len(refs) : ~lookup[refs[k]].found) => result = refContent

\* the lower-cased ids of the tokens of the content, in order of occurrence
TokenIds == [i \in {k \in 1..Len(refParts) : refParts[k].token}
                |-> toLowerCase(refParts[i].uuid)]
FirstOccurrence(id) ==
    CHOOSE i \in DOMAIN TokenIds :
        TokenIds[i] = id /\ \A j \in DOMAIN TokenIds : TokenIds[j] = id => i <= j

\* C9: resolveBlockRefsAsync issues its lookups one at a time; the ids passed
\* to the lookup are the distinct reference ids of the text (compared without
\* case) in order of first occurrence, each looked up at most once.
C9_Lookups ==
    /\ Cardinality(inFlight) <= 1
    /\ inFlight # {} => (rpc = "awaiting" /\ inFlight = {lookups[Len(lookups)]})
    /\ \A k \in 1..Len(lookups) : \E i \in DOMAIN TokenIds : TokenIds[i] = lookups[k]
    /\ \A k, l \in 1..Len(lookups) :
           k < l => FirstOccurrence(lookups[k]) < FirstOccurrence(lookups[l])
    /\ \A i \in DOMAIN TokenIds :
           (\E k \in 1..Len(lookups) : FirstOccurrence(lookups[k]) > i)
               => \E k \in 1..Len(lookups) : lookups[k] = TokenIds[i]
    /\ rpc = "done" => \A i \in DOMAIN TokenIds : \E k \in 1..Len(lookups) : lookups[k] = TokenIds[i]

\* three tokens, two of them the same id in different casing, took two lookups
C9_Witness ==
    /\ rpc = "done"
    /\ Len(lookups) = 2
    /\ Cardinality(DOMAIN TokenIds) = 3
    /\ \E i, j \in DOMAIN TokenIds : refParts[i].uuid = UuidLowerA /\ refParts[j].uuid = UuidUpperA

-----------------------------------------------------------------------------
(* search.ts: SearchService.search *)

\* A JavaScript number is NaN or a multiple of one half, kept as twice its
\* value so that the limits 0.5 and 2.5 exist; undefined is a missing option.
NaN == [kind |-> "nan", twice |-> 0]
Undefined == [kind |-> "undefined", twice |-> 0]
Num(n) == [kind |-> "num", twice |-> 2 * n]
Halves(h) == [kind |-> "num", twice |-> h]

DefaultLimit == 5
HardCap == 20

\* limit = 5 in the destructuring of params
LimitOrDefault(l) == IF l.kind = "undefined" THEN Num(DefaultLimit) ELSE l

\* Math.min(a, b): NaN when an argument is NaN
MathMin(a, b) ==
    IF a.kind = "nan" \/ b.kind = "nan" THEN NaN
    ELSE IF a.twice <= b.twice THEN a ELSE b

\* const maxLimit = Math.min(limit, 20)
maxLimit(l) == MathMin(LimitOrDefault(l), Num(HardCap))

\* results.length >= maxLimit: false when maxLimit is NaN
LengthReaches(res, cap) == cap.kind = "num" /\ 2 * Len(res) >= cap.twice

\* a faulty check: the query is not trimmed
QueryIsEmpty_NoTrim(q) == Len(q) = 0

\* !query || query.trim().length === 0
QueryIsEmpty(q) == Len(q) = 0 \/ Len(trim(q)) = 0

EmptyQueryMessage == "Search query cannot be empty"

\* searchContent = true, searchFrontmatter = false, searchBlockProperties = true
DefaultOptions == [content |-> TRUE, frontmatter |-> FALSE, properties |-> TRUE]

\* A file is kept by where the query occurs in it: in its frontmatter, in the
\* content of its body and in the property lines of its body (the body is
\* content and property lines, the raw text frontmatter and body), and for
\* each block of the flat list whether the block's text includes the query.
InRaw(f)  == f.inFrontmatter \/ f.inContent \/ f.inProperties
InBody(f) == f.inContent \/ f.inProperties

\* searchIn.indexOf(searchQuery) !== -1, for the searchableText the options select
IndexFound(f, o) ==
    IF o.content /\ o.frontmatter /\ o.properties THEN InRaw(f)
    ELSE IF o.content THEN InBody(f)
    ELSE IF o.frontmatter THEN f.inFrontmatter
    ELSE IF o.properties THEN InBody(f)
    ELSE FALSE

BlockResult(path, k) == [p |-> path, block |-> k]
FileResult(path)     == [p |-> path, block |-> 0]

RECURSIVE ScanBlocks(_, _, _, _, _)
\* after results.push for block k: if (results.length >= maxLimit) break
AfterPush(res, flat, k, path, cap) ==
    IF LengthReaches(res, cap) THEN res ELSE ScanBlocks(res, flat, k + 1, path, cap)

\* for (const block of flat), from block k on; flat[k] tells whether the
\* block's text includes the query
ScanBlocks(res, flat, k, path, cap) ==
    IF k > Len(flat) THEN res
    ELSE IF flat[k] THEN AfterPush(Append(res, BlockResult(path, k)), flat, k, path, cap)
    ELSE ScanBlocks(res, flat, k + 1, path, cap)

\* if (results.length === 0 && index !== -1) results.push(file-level result)
FileLevel(res, path) == IF Len(res) = 0 THEN Append(res, FileResult(path)) ELSE res

\* the body of the try block for a file that was read
ScanFile(res, f, path, cap, o) ==
    IF IndexFound(f, o)
    THEN FileLevel(ScanBlocks(res, f.blocks, 1, path, cap), path)
    ELSE res

-----------------------------------------------------------------------------
(* The search's inputs *)

MaxFiles == 2
MaxBlocks == 11
MaxLimit == 25

\* a markdown file of the graph: allowed by the path filter, readable, where
\* the query occurs, and the blocks whose text includes the query
File(allowed, readable, inFrontmatter, inContent, inProperties, blocks) ==
    [allowed |-> allowed, readable |-> readable, inFrontmatter |-> inFrontmatter,
     inContent |-> inContent, inProperties |-> inProperties, blocks |-> blocks]
FileShapes ==
    { File(FALSE, TRUE, FALSE, TRUE, FALSE, <<TRUE>>),
      File(TRUE, FALSE, FALSE, TRUE, FALSE, <<TRUE>>),
      File(TRUE, TRUE, FALSE, FALSE, FALSE, <<FALSE>>),
      File(TRUE, TRUE, TRUE, FALSE, FALSE, <<FALSE>>),
      File(TRUE, TRUE, FALSE, TRUE, FALSE, <<FALSE>>),
      File(TRUE, TRUE, FALSE, FALSE, TRUE, <<FALSE>>),
      File(TRUE, TRUE, FALSE, FALSE, TRUE, <<FALSE, TRUE>>),
      File(TRUE, TRUE, FALSE, TRUE, FALSE, <<FALSE, TRUE, TRUE>>),
      File(TRUE, TRUE, FALSE, TRUE, FALSE, [k \in 1..MaxBlocks |-> TRUE]) }
Corpora == UNION {[1..n -> FileShapes] : n \in 0..MaxFiles}

Limits ==
    {Undefined, NaN, Num(0), Halves(1), Num(1), Num(2), Halves(5),
     Num(DefaultLimit), Num(HardCap), Num(MaxLimit)}
Queries == {<<>>, <<" ">>, <<"\t", "\n">>, <<"x">>}
OptionSets == [content : BOOLEAN, frontmatter : BOOLEAN, properties : BOOLEAN]

-----------------------------------------------------------------------------
(* The search's state machine: one call of SearchService.search, a step per
   file of the traversal *)

SearchInit ==
    /\ query \in Queries
    /\ limit \in Limits
    /\ options \in OptionSets
    /\ files \in Corpora
    /\ listed = FALSE
    /\ readFiles = <<>>
    /\ fileIdx = 0
    /\ results = <<>>
    /\ searchError = ""
    /\ spc = "start"

\* throw new Error('Search query cannot be empty')
SearchThrow ==
    /\ spc = "start"
    /\ QueryIsEmpty(query)
    /\ searchError' = EmptyQueryMessage
    /\ spc' = "thrown"
    /\ UNCHANGED <<query, limit, options, files, listed, readFiles, fileIdx, results>>

\* results = [], maxLimit, files = await this.findMarkdownFiles(graphPath)
SearchList ==
    /\ spc = "start"
    /\ ~QueryIsEmpty(query)
    /\ listed' = TRUE
    /\ fileIdx' = 1
    /\ spc' = "scan"
    /\ UNCHANGED <<query, limit, options, files, readFiles, results, searchError>>

\* if (!this.pathFilter.isAllowed(relativePath)) continue
SkipFile ==
    /\ spc = "scan"
    /\ fileIdx <= Len(files)
    /\ ~files[fileIdx].allowed
    /\ fileIdx' = fileIdx + 1
    /\ UNCHANGED <<query, limit, options, files, listed, readFiles, results,
                   searchError, spc>>

\* if (results.length >= maxLimit) break; return results
SearchBreak ==
    /\ spc = "scan"
    /\ fileIdx <= Len(files)
    /\ files[fileIdx].allowed
    /\ LengthReaches(results, maxLimit(limit))
    /\ spc' = "done"
    /\ UNCHANGED <<query, limit, options, files, listed, readFiles, fileIdx, results,
                   searchError>>

\* a faulty file step: a failed read is not caught and ends the search
SearchFile_Rethrow ==
    /\ spc = "scan"
    /\ fileIdx <= Len(files)
    /\ files[fileIdx].allowed
    /\ ~LengthReaches(results, maxLimit(limit))
    /\ readFiles' = Append(readFiles, fileIdx)
    /\ results' = IF files[fileIdx].readable
                  THEN ScanFile(results, files[fileIdx], fileIdx, maxLimit(limit), options)
                  ELSE results
    /\ fileIdx' = fileIdx + 1
    /\ spc' = IF files[fileIdx].readable THEN spc ELSE "thrown"
    /\ UNCHANGED <<query, limit, options, files, listed, searchError>>

\* try { raw = await readFile(...); search it; push } catch { skip }
SearchFile ==
    /\ spc = "scan"
    /\ fileIdx <= Len(files)
    /\ files[fileIdx].allowed
    /\ ~LengthReaches(results, maxLimit(limit))
    /\ readFiles' = Append(readFiles, fileIdx)
    /\ results' = IF files[fileIdx].readable
                  THEN ScanFile(results, files[fileIdx], fileIdx, maxLimit(limit), options)
                  ELSE results
    /\ fileIdx' = fileIdx + 1
    /\ UNCHANGED <<query, limit, options, files, listed, searchError, spc>>

\* the loop ends; return results
SearchReturn ==
    /\ spc = "scan"
    /\ fileIdx > Len(files)
    /\ spc' = "done"
    /\ UNCHANGED <<query, limit, options, files, listed, readFiles, fileIdx, results,
                   searchError>>

InitSearch == SearchInit /\ ParserIdle /\ RefIdle /\ TaskIdle /\ FsIdle /\ LaterIdle
NextSearch ==
    \/ SearchThrow /\ UNCHANGED <<parserVars, refVars, taskVars, fsVars, laterVars>>
    \/ SearchList /\ UNCHANGED <<parserVars, refVars, taskVars, fsVars, laterVars>>
    \/ SkipFile /\ UNCHANGED <<parserVars, refVars, taskVars, fsVars, laterVars>>
    \/ SearchBreak /\ UNCHANGED <<parserVars, refVars, taskVars, fsVars, laterVars>>
    \/ SearchFile /\ UNCHANGED <<parserVars, refVars, taskVars, fsVars, laterVars>>
    \/ SearchReturn /\ UNCHANGED <<parserVars, refVars, taskVars, fsVars, laterVars>>
SpecSearch == InitSearch /\ [][NextSearch]_vars

-----------------------------------------------------------------------------
(* Properties of the search *)

\* C10: search never returns more than min(limit, 20) results, for any
\* requested limit (default 5) and any corpus; in particular never more than 20.
C10_Cap ==
    spc = "done" =>
        /\ Len(results) <= HardCap
        /\ limit.kind # "nan" =>
               2 * Len(results) <= MathMin(LimitOrDefault(limit), Num(HardCap)).twice

\* a query without a character other than white space
BlankQuery(q) == \A i \in 1..Len(q) : q[i] \in WhiteSpace

\* C11: search called with an empty or whitespace-only query fails with the
\* error `Search query cannot be empty` before any directory is listed or any
\* file is read.
C11_EmptyQuery ==
    /\ (BlankQuery(query) /\ spc # "start") =>
           (spc = "thrown" /\ searchError = "Search query cannot be empty")
    /\ BlankQuery(query) => (~listed /\ readFiles = <<>> /\ results = <<>>)
    /\ spc = "thrown" => BlankQuery(query)

\* a query of white space only was rejected, on a graph that has a matching file
C11_Witness ==
    /\ spc = "thrown"
    /\ Len(query) >= 2
    /\ \E i \in 1..Len(files) : files[i].allowed /\ files[i].readable /\ InBody(files[i])

\* the number of results of kind r
CountOf(r) == Cardinality({k \in 1..Len(results) : results[k] = r})
NoBlockMatches(f) == \A k \in 1..Len(f.blocks) : ~f.blocks[k]

\* C12: for every scanned file (result cap not yet reached) whose searchable
\* text contains the query but none of whose blocks match, search emits
\* exactly one file-level result for that file, however many results earlier
\* files have contributed.
C12_FileLevel ==
    spc = "done" =>
        \A k \in 1..Len(readFiles) :
            (/\ files[readFiles[k]].readable
             /\ IndexFound(files[readFiles[k]], options)
             /\ NoBlockMatches(files[readFiles[k]]))
                => CountOf(FileResult(readFiles[k])) = 1

\* the query occurs in a zone of f that the options enable
InEnabledZone(f, o) ==
    \/ o.content /\ f.inContent
    \/ o.frontmatter /\ f.inFrontmatter
    \/ o.properties /\ f.inProperties

\* C13: search skips a file if and only if the query occurs in none of the
\* enabled zones (content, header metadata, block properties), for every
\* combination of the three options; with the defaults a query occurring only
\* in the frontmatter yields no result for that file. Stated of the first file
\* that is read, which is skipped exactly when it contributes no result.
C13_Zones ==
    (spc = "done" /\ readFiles # <<>> /\ files[readFiles[1]].readable) =>
        /\ InEnabledZone(files[readFiles[1]], options)
               <=> (\E k \in 1..Len(results) : results[k].p = readFiles[1])
        /\ (options = DefaultOptions /\ ~InBody(files[readFiles[1]]))
               => ~(\E k \in 1..Len(results) : results[k].p = readFiles[1])

-----------------------------------------------------------------------------
(* server.ts: the tool search_tasks; SearchService.searchTasks as the
   specification describes it *)

TaskDefaultLimit == 20

\* a faulty handler: the markers are not passed on
HandlerMarkers_Dropped(markers) == <<>>

\* markers?.length ? markers : undefined; undefined is the empty list
HandlerMarkers(markers) == IF Len(markers) > 0 THEN markers ELSE <<>>

\* (trimmed.limit as number) || 20
HandlerLimit(l) ==
    IF l.kind # "num" \/ l.twice = 0 THEN Num(TaskDefaultLimit) ELSE l

\* the params of searchService.searchTasks({markers, path, limit, ...})
HandlerParams(args) ==
    [markers |-> HandlerMarkers(args.markers),
     path    |-> args.path,
     limit   |-> HandlerLimit(args.limit)]

\* searchTasks keeps a block that carries a task marker, of the marker subset
\* when one is given
TaskBlockKept(block, params) ==
    /\ block.marker # Absent
    /\ (params.markers = <<>>
            \/ \E k \in 1..Len(params.markers) : params.markers[k] = block.marker)

TaskResult(path, block) ==
    [p |-> path, uuid |-> block.uuid, marker |-> block.marker, content |-> block.content]

RECURSIVE TaskBlocks(_, _, _, _, _, _)
\* the blocks of the flat list from k on, kept until the cap is reached
TaskBlocks(res, f, flat, k, path, params) ==
    IF k > Len(flat) \/ LengthReaches(res, params.limit) THEN res
    ELSE TaskBlocks(IF TaskBlockKept(f.nodes[flat[k]], params)
                    THEN Append(res, TaskResult(path, f.nodes[flat[k]]))
                    ELSE res,
                    f, flat, k + 1, path, params)

\* the task blocks of one file
TasksOfParsed(res, f, path, params) ==
    TaskBlocks(res, f, flattenBlocks(f), 1, path, params)

\* a file under the path prefix, when one is given, is parsed and searched
TasksOfFile(res, file, params) ==
    IF StartsWith(file.path, params.path)
    THEN TasksOfParsed(res, parseBlocks(file.body, file.path, 0).forest, file.path, params)
    ELSE res

-----------------------------------------------------------------------------
(* The task search's inputs *)

PathPagesA    == <<"p", "a", "g", "e", "s", "/", "a", ".", "m", "d">>
PathJournalsB == <<"j", "o", "u", "r", "n", "a", "l", "s", "/", "b", ".", "m", "d">>
PrefixPages   == <<"p", "a", "g", "e", "s", "/">>

LineTodo      == <<"-", " ", "T", "O", "D", "O", " ", "a">>
LineDoneLower == <<"-", " ", "d", "o", "n", "e", " ", "b">>
LineNote      == <<"-", " ", "n", "o", "t", "e">>
LineCancelled == <<"-", " ", "C", "A", "N", "C", "E", "L", "L", "E", "D", " ", "c">>
LineTodos     == <<"-", " ", "T", "O", "D", "O", "S", " ", "d">>
LineWaiting   == <<"\t", "-", " ", "W", "A", "I", "T", "I", "N", "G">>
TaskLines == {LineTodo, LineDoneLower, LineNote, LineCancelled, LineTodos, LineWaiting}

MaxTaskLines == 2
MaxTaskBlocks == 21
TaskBodies ==
    {join(ls) : ls \in UNION {[1..n -> TaskLines] : n \in 1..MaxTaskLines}}
        \cup {join([k \in 1..MaxTaskBlocks |-> LineTodo])}

\* one page, or one page and one journal
TaskCorpora ==
    {<<[path |-> PathPagesA, body |-> b]>> : b \in TaskBodies}
        \cup {<<[path |-> PathPagesA, body |-> b], [path |-> PathJournalsB, body |-> c]>> :
                  b \in TaskBodies, c \in {LineTodo, LineNote}}

TaskMarkerArgs == {<<>>, <<TASK_MARKERS[1]>>, <<CANCELED>>, <<CANCELLED>>,
                   <<TASK_MARKERS[1], TASK_MARKERS[3]>>}
TaskPathArgs == {<<>>, PrefixPages, PathJournalsB}
TaskLimitArgs == {Undefined, Num(0), Num(1), Num(TaskDefaultLimit)}
TaskArgSets == [markers : TaskMarkerArgs, path : TaskPathArgs, limit : TaskLimitArgs]

-----------------------------------------------------------------------------
(* The task search's state machine: one call of the tool, a step per file *)

TaskInit ==
    /\ taskArgs \in TaskArgSets
    /\ taskFiles \in TaskCorpora
    /\ taskParams = <<>>
    /\ taskIdx = 0
    /\ taskResults = <<>>
    /\ tpc = "start"

\* case 'search_tasks': the handler calls searchService.searchTasks
TasksCall ==
    /\ tpc = "start"
    /\ taskParams' = HandlerParams(taskArgs)
    /\ taskIdx' = 1
    /\ tpc' = "scan"
    /\ UNCHANGED <<taskArgs, taskFiles, taskResults>>

\* the next file of the traversal
TasksFile ==
    /\ tpc = "scan"
    /\ taskIdx <= Len(taskFiles)
    /\ taskResults' = TasksOfFile(taskResults, taskFiles[taskIdx], taskParams)
    /\ taskIdx' = taskIdx + 1
    /\ UNCHANGED <<taskArgs, taskParams, taskFiles, tpc>>

\* the results are returned to the client
TasksReturn ==
    /\ tpc = "scan"
    /\ taskIdx > Len(taskFiles)
    /\ tpc' = "done"
    /\ UNCHANGED <<taskArgs, taskParams, taskFiles, taskIdx, taskResults>>

InitTasks == TaskInit /\ ParserIdle /\ RefIdle /\ SearchIdle /\ FsIdle /\ LaterIdle
NextTasks ==
    \/ TasksCall /\ UNCHANGED <<parserVars, refVars, searchVars, fsVars, laterVars>>
    \/ TasksFile /\ UNCHANGED <<parserVars, refVars, searchVars, fsVars, laterVars>>
    \/ TasksReturn /\ UNCHANGED <<parserVars, refVars, searchVars, fsVars, laterVars>>
SpecTasks == InitTasks /\ [][NextTasks]_vars

-----------------------------------------------------------------------------
(* Properties of the task search *)

\* a result is a block that carries a recognized marker, of the supplied
\* subset and under the supplied path prefix when given
TaskResultAllowed(r) ==
    /\ r.marker \in TaskMarkerSet
    /\ \E i \in 1..Len(TASK_MARKERS) :
           /\ StartsWithWordAnyCase(r.content, TASK_MARKERS[i])
           /\ Canonical(TASK_MARKERS[i]) = r.marker
    /\ (taskArgs.markers # <<>>
            => \E k \in 1..Len(taskArgs.markers) : taskArgs.markers[k] = r.marker)
    /\ StartsWith(r.p, taskArgs.path)

-----------------------------------------------------------------------------
(* node:path (POSIX), as filesystem.ts uses it. An absolute path is kept as
   the sequence of its segments. *)

RECURSIVE SplitChar(_, _)
\* the pieces of s between the occurrences of the character c
SplitChar(s, c) ==
    IF indexOfChar(s, c) = 0 THEN <<s>>
    ELSE <<SubSeq(s, 1, indexOfChar(s, c) - 1)>>
             \o SplitChar(From(s, indexOfChar(s, c) + 1), c)

RECURSIVE JoinChar(_, _)
JoinChar(segs, c) ==
    IF segs = <<>> THEN <<>>
    ELSE IF Len(segs) = 1 THEN segs[1]
    ELSE segs[1] \o <<c>> \o JoinChar(Tail(segs), c)

DotDot == <<".", ".">>

RECURSIVE NormalizeSegments(_, _)
\* normalisation of an absolute path: empty and `.` segments are dropped, `..`
\* removes the segment before it and is dropped at the root
NormalizeSegments(segs, out) ==
    IF segs = <<>> THEN out
    ELSE IF Head(segs) = <<>> \/ Head(segs) = <<".">>
    THEN NormalizeSegments(Tail(segs), out)
    ELSE IF Head(segs) = DotDot
    THEN NormalizeSegments(Tail(segs),
                           IF out = <<>> THEN out ELSE SubSeq(out, 1, Len(out) - 1))
    ELSE NormalizeSegments(Tail(segs), Append(out, Head(segs)))

\* resolve(join(base, p)) for an absolute base
PathResolve(base, p) == NormalizeSegments(base \o SplitChar(p, "/"), <<>>)

\* the length of the longest common prefix of two segment sequences
CommonPrefix(a, b) ==
    CHOOSE k \in 0..Min(Len(a), Len(b)) :
        /\ SubSeq(a, 1, k) = SubSeq(b, 1, k)
        /\ k < Min(Len(a), Len(b)) => a[k + 1] # b[k + 1]

\* relative(from, to) of two normalised absolute paths, as a string
PathRelativeAt(from, to, k) ==
    JoinChar([i \in 1..(Len(from) - k) |-> DotDot] \o SubSeq(to, k + 1, Len(to)), "/")
PathRelative(from, to) == PathRelativeAt(from, to, CommonPrefix(from, to))

\* dirname of a normalised absolute path
dirname(full) == IF full = <<>> THEN full ELSE SubSeq(full, 1, Len(full) - 1)

-----------------------------------------------------------------------------
(* pathfilter.ts *)

IgnoredPatterns == <<<<".", "l", "o", "g", "s", "e", "q", "/", "*", "*">>, <<".", "g", "i", "t", "/", "*", "*">>, <<"n", "o", "d", "e", "_", "m", "o", "d", "u", "l", "e", "s", "/", "*", "*">>, <<".", "D", "S", "_", "S", "t", "o", "r", "e">>, <<"T", "h", "u", "m", "b", "s", ".", "d", "b">>>>
AllowedExtensions == <<<<".", "m", "d">>, <<".", "m", "a", "r", "k", "d", "o", "w", "n">>, <<".", "t", "x", "t">>>>
\* the longest extension isFile takes as one
MaxExtension == 10

\* replace(/\\/g, '/')
SlashPath(s) == [i \in 1..Len(s) |-> IF s[i] = "\\" THEN "/" ELSE s[i]]

EndsWith(s, e) == Len(s) >= Len(e) /\ SubSeq(s, Len(s) - Len(e) + 1, Len(s)) = e

lastIndexOfChar(s, c) ==
    IF \A i \in 1..Len(s) : s[i] # c THEN 0
    ELSE CHOOSE i \in 1..Len(s) : s[i] = c /\ \A j \in (i + 1)..Len(s) : s[j] # c

RECURSIVE GlobMatchFrom(_, _, _, _)
\* the regular expression simpleGlobMatch builds from pattern p, from p[i] on,
\* against s[j..]: `**` is `.*`, `*` is `[^/]*`, `?` is `[^/]`, any other
\* character is itself; the expression is anchored at both ends
GlobMatchFrom(p, i, s, j) ==
    IF i > Len(p) THEN j > Len(s)
    ELSE IF p[i] = "*" /\ i < Len(p) /\ p[i + 1] = "*"
    THEN \E k \in j..(Len(s) + 1) :
             /\ \A m \in j..(k - 1) : s[m] \notin LineTerminators
             /\ GlobMatchFrom(p, i + 2, s, k)
    ELSE IF p[i] = "*"
    THEN \E k \in j..(Len(s) + 1) :
             /\ \A m \in j..(k - 1) : s[m] # "/"
             /\ GlobMatchFrom(p, i + 1, s, k)
    ELSE IF p[i] = "?"
    THEN j <= Len(s) /\ s[j] # "/" /\ GlobMatchFrom(p, i + 1, s, j + 1)
    ELSE j <= Len(s) /\ s[j] = p[i] /\ GlobMatchFrom(p, i + 1, s, j + 1)

simpleGlobMatch(pattern, path) == GlobMatchFrom(SlashPath(pattern), 1, path, 1)

\* PathFilter.isFile: the last component has an extension of 1 to 10 letters
\* or digits, after a dot that is not its first character
isFileComponent(lastComponent, lastDotIndex) ==
    /\ lastDotIndex > 1
    /\ Len(lastComponent) - lastDotIndex >= 1
    /\ Len(lastComponent) - lastDotIndex <= MaxExtension
    /\ \A i \in (lastDotIndex + 1)..Len(lastComponent) :
           lastComponent[i] \in (UpperSet \cup LowerSet \cup Digits)
isFileOf(lastComponent) == isFileComponent(lastComponent, lastIndexOfChar(lastComponent, "."))
isFile(path) ==
    /\ ~EndsWith(path, <<"/">>)
    /\ isFileOf(From(path, lastIndexOfChar(path, "/") + 1))

IsIgnored(normalizedPath) ==
    \E k \in 1..Len(IgnoredPatterns) : simpleGlobMatch(IgnoredPatterns[k], normalizedPath)

hasAllowedExtension(normalizedPath) ==
    \E k \in 1..Len(AllowedExtensions) :
        EndsWith(toLowerCase(normalizedPath), toLowerCase(AllowedExtensions[k]))

isAllowedNormalized(normalizedPath) ==
    /\ ~IsIgnored(normalizedPath)
    /\ isFile(normalizedPath) => hasAllowedExtension(normalizedPath)

isAllowed(path) == isAllowedNormalized(SlashPath(path))

-----------------------------------------------------------------------------
(* filesystem.ts: the graph on disk *)

\* this.graphPath, resolved
GraphPath == <<<<"g", "r", "a", "p", "h">>>>

\* a faulty check: no relative path is taken to leave the graph
RelEscapes_Never(rel) == FALSE

\* rel.startsWith('..')
RelEscapes(rel) == StartsWith(rel, DotDot)

ResolveChecked(fullPath, rel) ==
    IF RelEscapes(rel) THEN [thrown |-> TRUE, fullPath |-> <<>>]
    ELSE [thrown |-> FALSE, fullPath |-> fullPath]
ResolveFull(fullPath) == ResolveChecked(fullPath, PathRelative(GraphPath, fullPath))
ResolveNormalized(trimmed) ==
    ResolveFull(PathResolve(GraphPath,
                            IF StartsWith(trimmed, <<"/">>) THEN Tail(trimmed) ELSE trimmed))
\* [thrown, fullPath]: thrown is the error `Path traversal not allowed`
resolvePath(relativePath) == ResolveNormalized(trim(relativePath))

\* the directories of the disk; the operations below never add or remove one
\* (mkdir with recursive: true of an existing directory does nothing)
Dirs == {<<>>, <<<<"e", "t", "c">>>>, GraphPath,
         GraphPath \o <<<<"p", "a", "g", "e", "s">>>>, GraphPath \o <<<<".", "g", "i", "t">>>>,
         GraphPath \o <<<<".", "l", "o", "g", "s", "e", "q">>>>, GraphPath \o <<<<"n", "o", "d", "e", "_", "m", "o", "d", "u", "l", "e", "s">>>>,
         GraphPath \o <<<<"n", "o", "d", "e", "_", "m", "o", "d", "u", "l", "e", "s">>, <<"p">>>>}

\* the result of an operation: thrown (an exception left it) or returned, the
\* kind of outcome, the value, the disk after it, the files it read, wrote or
\* unlinked, and the number of uuidv4() calls after it
Outcome(thrown, kind, value, d, access, calls) ==
    [thrown |-> thrown, kind |-> kind, value |-> value, disk |-> d,
     access |-> access, calls |-> calls]
Acc(op, full) == [op |-> op, path |-> full]

Put(d, full, data) == [q \in DOMAIN d \cup {full} |-> IF q = full THEN data ELSE d[q]]
Remove(d, full) == [q \in DOMAIN d \ {full} |-> d[q]]

\* the files of the disk whose permissions allow writing but not reading
WriteOnly == {GraphPath \o <<<<"p", "a", "g", "e", "s">>, <<"l", "o", "c", "k", "e", "d", ".", "m", "d">>>>}

\* readFile(full, 'utf-8')
readFile(d, full) ==
    IF full \in DOMAIN d /\ full \in WriteOnly THEN [code |-> "EACCES", data |-> <<>>]
    ELSE IF full \in DOMAIN d THEN [code |-> "ok", data |-> d[full]]
    ELSE IF full \in Dirs THEN [code |-> "EISDIR", data |-> <<>>]
    ELSE [code |-> "ENOENT", data |-> <<>>]

\* isDirectory: false when the path leaves the graph, is filtered or is absent
isDirectoryOf(path, r) == ~r.thrown /\ isAllowed(path) /\ r.fullPath \in Dirs
isDirectory(path) == isDirectoryOf(path, resolvePath(path))

\* a page without frontmatter: FrontmatterHandler.parse leaves the text as it is
ParsedPage(raw, blocks) == [content |-> raw, originalContent |-> raw, forest |-> blocks]

ReadParsed(d, raw, access, p) ==
    Outcome(FALSE, "ok", ParsedPage(raw, p.forest), d, access, p.calls)
ReadFileStep(d, path, calls, full, f) ==
    IF f.code = "ok"
    THEN ReadParsed(d, f.data, {Acc("read", full)}, parseBlocks(f.data, path, calls))
    ELSE Outcome(TRUE, IF f.code = "ENOENT" THEN "notfound" ELSE "failed", <<>>, d, {}, calls)
ReadChecked(d, path, calls, r) ==
    IF r.thrown THEN Outcome(TRUE, "traversal", <<>>, d, {}, calls)
    ELSE IF ~isAllowed(path) THEN Outcome(TRUE, "denied", <<>>, d, {}, calls)
    ELSE IF isDirectory(path) THEN Outcome(TRUE, "isdir", <<>>, d, {}, calls)
    ELSE ReadFileStep(d, path, calls, r.fullPath, readFile(d, r.fullPath))
readPage(d, path, calls) == ReadChecked(d, path, calls, resolvePath(path))

BlankLine == <<"\n", "\n">>
\* finalContent of writePage, without frontmatter; existing is readPage's outcome
FinalContent(mode, content, existing) ==
    IF mode = "overwrite" \/ existing.thrown THEN content
    ELSE IF mode = "append" THEN existing.value.content \o BlankLine \o content
    ELSE content \o BlankLine \o existing.value.content
\* mkdir(dirname(fullPath)) and writeFile(fullPath, finalContent)
WriteFinal(d, full, final, access, calls) ==
    IF full \in Dirs \/ dirname(full) \notin Dirs
    THEN Outcome(TRUE, "failed", <<>>, d, access, calls)
    ELSE Outcome(FALSE, "ok", <<>>, Put(d, full, final), access \cup {Acc("write", full)}, calls)
WriteChecked(d, path, content, mode, calls, r, existing) ==
    IF r.thrown THEN Outcome(TRUE, "traversal", <<>>, d, {}, calls)
    ELSE IF ~isAllowed(path) THEN Outcome(TRUE, "denied", <<>>, d, {}, calls)
    ELSE WriteFinal(d, r.fullPath, FinalContent(mode, content, existing),
                    IF mode = "overwrite" THEN {} ELSE existing.access,
                    IF mode = "overwrite" THEN calls ELSE existing.calls)
writePage(d, path, content, mode, calls) ==
    WriteChecked(d, path, content, mode, calls, resolvePath(path), readPage(d, path, calls))

\* String.prototype.indexOf, 1-based from position i; 0 when absent
indexOfFrom(s, sub, i) ==
    IF \A k \in i..(Len(s) - Len(sub) + 1) : SubSeq(s, k, k + Len(sub) - 1) # sub THEN 0
    ELSE CHOOSE k \in i..(Len(s) - Len(sub) + 1) :
             /\ SubSeq(s, k, k + Len(sub) - 1) = sub
             /\ \A j \in i..(k - 1) : SubSeq(s, j, j + Len(sub) - 1) # sub

RECURSIVE SplitCount(_, _, _)
\* full.split(oldString).length - 1, counted from position i on
SplitCount(s, sub, i) ==
    IF indexOfFrom(s, sub, i) = 0 THEN 0
    ELSE 1 + SplitCount(s, sub, indexOfFrom(s, sub, i) + Len(sub))

RECURSIVE SplitJoin(_, _, _, _)
\* full.split(oldString).join(newString), from position i on
SplitJoin(s, sub, new, i) ==
    IF indexOfFrom(s, sub, i) = 0 THEN From(s, i)
    ELSE SubSeq(s, i, indexOfFrom(s, sub, i) - 1) \o new
             \o SplitJoin(s, sub, new, indexOfFrom(s, sub, i) + Len(sub))

\* full.replace(oldString, newString) with the first occurrence at m
ReplaceFirstAt(s, sub, new, m) ==
    SubSeq(s, 1, m - 1)
        \o GetSubstitution(new, 1, sub, SubSeq(s, 1, m - 1), From(s, m + Len(sub)))
        \o From(s, m + Len(sub))

\* a faulty update: replaceAll replaces the first occurrence only
PatchUpdated_First(full, oldString, newString, replaceAll) ==
    ReplaceFirstAt(full, oldString, newString, indexOfFrom(full, oldString, 1))

\* updated
PatchUpdated(full, oldString, newString, replaceAll) ==
    IF replaceAll THEN SplitJoin(full, oldString, newString, 1)
    ELSE ReplaceFirstAt(full, oldString, newString, indexOfFrom(full, oldString, 1))

PatchFound(d, path, full, oldString, newString, replaceAll, occurrences, page) ==
    IF occurrences = 0 THEN Outcome(FALSE, "nomatch", 0, d, page.access, page.calls)
    ELSE IF ~replaceAll /\ occurrences > 1
    THEN Outcome(FALSE, "ambiguous", occurrences, d, page.access, page.calls)
    ELSE Outcome(FALSE, "ok", occurrences,
                 Put(d, resolvePath(path).fullPath,
                     PatchUpdated(full, oldString, newString, replaceAll)),
                 page.access \cup {Acc("write", resolvePath(path).fullPath)},
                 page.calls)
PatchRead(d, path, oldString, newString, replaceAll, page) ==
    IF page.thrown THEN Outcome(FALSE, "failed", page.kind, d, page.access, page.calls)
    ELSE PatchFound(d, path, page.value.originalContent, oldString, newString, replaceAll,
                    SplitCount(page.value.originalContent, oldString, 1), page)
patchNote(d, path, oldString, newString, replaceAll, calls) ==
    IF ~isAllowed(path) THEN Outcome(FALSE, "denied", <<>>, d, {}, calls)
    ELSE IF trim(oldString) = <<>> THEN Outcome(FALSE, "empty", <<>>, d, {}, calls)
    ELSE IF oldString = newString THEN Outcome(FALSE, "same", <<>>, d, {}, calls)
    ELSE PatchRead(d, path, oldString, newString, replaceAll, readPage(d, path, calls))

\* unlink(fullPath) inside the try of deleteNote
DeleteUnlink(d, full, calls) ==
    IF full \in DOMAIN d
    THEN Outcome(FALSE, "ok", <<>>, Remove(d, full), {Acc("unlink", full)}, calls)
    ELSE Outcome(FALSE, IF full \in Dirs THEN "failed" ELSE "notfound", <<>>, d, {}, calls)
DeleteChecked(d, path, calls, r) ==
    IF r.thrown THEN Outcome(TRUE, "traversal", <<>>, d, {}, calls)
    ELSE IF ~isAllowed(path) THEN Outcome(FALSE, "denied", <<>>, d, {}, calls)
    ELSE IF isDirectory(path) THEN Outcome(FALSE, "isdir", <<>>, d, {}, calls)
    ELSE DeleteUnlink(d, r.fullPath, calls)
\* a faulty deleteNote: the confirmation is not compared
Unconfirmed_Never(path, confirmPath) == FALSE
\* path !== confirmPath
Unconfirmed(path, confirmPath) == path # confirmPath
deleteNote(d, path, confirmPath, calls) ==
    IF Unconfirmed(path, confirmPath) THEN Outcome(FALSE, "cancelled", <<>>, d, {}, calls)
    ELSE DeleteChecked(d, path, calls, resolvePath(path))

\* writeFile(newFull, content, {flag}) and unlink(oldFull) of moveNote
MoveWrite(d, oldFull, newFull, overwrite, content, calls) ==
    IF ~overwrite /\ (newFull \in DOMAIN d \/ newFull \in Dirs)
    THEN Outcome(FALSE, "exists", <<>>, d, {Acc("read", oldFull)}, calls)
    ELSE IF newFull \in Dirs \/ dirname(newFull) \notin Dirs
    THEN Outcome(FALSE, "failed", <<>>, d, {Acc("read", oldFull)}, calls)
    ELSE Outcome(FALSE, "ok", <<>>, Remove(Put(d, newFull, content), oldFull),
                 {Acc("read", oldFull), Acc("write", newFull), Acc("unlink", oldFull)},
                 calls)
MoveRead(d, oldFull, newFull, overwrite, f, calls) ==
    IF f.code = "ok" THEN MoveWrite(d, oldFull, newFull, overwrite, f.data, calls)
    ELSE Outcome(FALSE, IF f.code = "ENOENT" THEN "notfound" ELSE "failed", <<>>, d, {}, calls)
MoveResolved(d, overwrite, ro, rn, calls) ==
    IF ro.thrown \/ rn.thrown THEN Outcome(TRUE, "traversal", <<>>, d, {}, calls)
    ELSE MoveRead(d, ro.fullPath, rn.fullPath, overwrite, readFile(d, ro.fullPath), calls)
moveNote(d, oldPath, newPath, overwrite, calls) ==
    IF ~isAllowed(oldPath) \/ ~isAllowed(newPath)
    THEN Outcome(FALSE, "denied", <<>>, d, {}, calls)
    ELSE MoveResolved(d, overwrite, resolvePath(oldPath), resolvePath(newPath), calls)

\* the largest batch readMultiplePages takes
MaxBatchFiles == 10

RECURSIVE BatchRead(_, _, _, _)
\* the mapped promises of readMultiplePages, from paths[k] on: out gathers the
\* paths fulfilled and rejected, the files read and the uuidv4() calls
BatchStep(d, paths, k, out, page) ==
    BatchRead(d, paths, k + 1,
              [successful |-> IF page.thrown THEN out.successful
                              ELSE Append(out.successful, paths[k]),
               failed     |-> IF page.thrown
                              THEN Append(out.failed, [path |-> paths[k], error |-> page.kind])
                              ELSE out.failed,
               access     |-> out.access \cup page.access,
               calls      |-> page.calls])
BatchRead(d, paths, k, out) ==
    IF k > Len(paths) THEN out
    ELSE BatchStep(d, paths, k, out,
                   IF ~isAllowed(paths[k])
                   THEN Outcome(TRUE, "denied", <<>>, d, {}, out.calls)
                   ELSE readPage(d, paths[k], out.calls))
BatchOutcome(d, out) ==
    Outcome(FALSE, "ok", [successful |-> out.successful, failed |-> out.failed],
            d, out.access, out.calls)
readMultiplePages(d, paths, calls) ==
    IF Len(paths) > MaxBatchFiles THEN Outcome(TRUE, "batch", <<>>, d, {}, calls)
    ELSE BatchOutcome(d, BatchRead(d, paths, 1,
                                   [successful |-> <<>>, failed |-> <<>>,
                                    access |-> {}, calls |-> calls]))

\* one mapped promise of getNotesInfo: stat and readFile of the resolved path
InfoOf(d, path, r) ==
    IF ~isAllowed(path) \/ r.thrown THEN [ok |-> FALSE, access |-> {}]
    ELSE [ok |-> r.fullPath \in DOMAIN d,
          access |-> IF r.fullPath \in DOMAIN d THEN {Acc("read", r.fullPath)} ELSE {}]
RECURSIVE InfoRead(_, _, _, _, _)
InfoStep(d, paths, k, infos, access, info) ==
    InfoRead(d, paths, k + 1,
             IF info.ok THEN Append(infos, paths[k]) ELSE infos,
             access \cup info.access)
InfoRead(d, paths, k, infos, access) ==
    IF k > Len(paths) THEN [infos |-> infos, access |-> access]
    ELSE InfoStep(d, paths, k, infos, access, InfoOf(d, paths[k], resolvePath(paths[k])))
InfoOutcome(d, out, calls) == Outcome(FALSE, "ok", out.infos, d, out.access, calls)
getNotesInfo(d, paths, calls) == InfoOutcome(d, InfoRead(d, paths, 1, <<>>, {}), calls)

-----------------------------------------------------------------------------
(* FileSystemService: the calls and their inputs *)

PagesA == <<"p", "a", "g", "e", "s", "/", "a", ".", "m", "d">>
PagesLocked == <<"p", "a", "g", "e", "s", "/", "l", "o", "c", "k", "e", "d", ".", "m", "d">>
PathArgs ==
    {PagesA, <<"/", "p", "a", "g", "e", "s", "/", "a", ".", "m", "d">>, <<" ", "p", "a", "g", "e", "s", "/", "a", ".", "m", "d">>, <<"p", "a", "g", "e", "s">>,
     <<".", "g", "i", "t", "/", "c", "o", "n", "f", "i", "g">>, <<"/", ".", "g", "i", "t", "/", "c", "o", "n", "f", "i", "g">>, <<".", "l", "o", "g", "s", "e", "q", "/", "x", ".", "m", "d">>, <<".", "/", ".", "l", "o", "g", "s", "e", "q", "/", "x", ".", "m", "d">>,
     <<"n", "o", "d", "e", "_", "m", "o", "d", "u", "l", "e", "s", "/", "p", "/", "R", "E", "A", "D", "M", "E", ".", "m", "d">>, <<"p", "a", "g", "e", "s", "/", ".", ".", "/", "n", "o", "d", "e", "_", "m", "o", "d", "u", "l", "e", "s", "/", "p", "/", "R", "E", "A", "D", "M", "E", ".", "m", "d">>,
     <<"p", "a", "g", "e", "s", "/", ".", ".", "/", ".", ".", "/", "e", "t", "c", "/", "x", ".", "m", "d">>, <<".", ".", "/", "a", ".", "e", "x", "e">>, <<"n", "e", "w", ".", "m", "d">>, <<"a", ".", "e", "x", "e">>}
\* the paths readPage and writePage are called with
PagePathArgs == PathArgs \cup {PagesLocked}
\* the confirmPath values tried with path p
ConfirmArgs(p) == {p, PagesA, <<"/", "p", "a", "g", "e", "s", "/", "a", ".", "m", "d">>}
PatchPaths == {PagesA, <<".", "g", "i", "t", "/", "c", "o", "n", "f", "i", "g">>, <<"/", ".", "g", "i", "t", "/", "c", "o", "n", "f", "i", "g">>, <<"p", "a", "g", "e", "s", "/", ".", ".", "/", ".", ".", "/", "e", "t", "c", "/", "x", ".", "m", "d">>, <<"n", "e", "w", ".", "m", "d">>}
MoveSources == {PagesA, <<" ", "p", "a", "g", "e", "s", "/", "a", ".", "m", "d">>, <<"p", "a", "g", "e", "s">>, <<".", "g", "i", "t", "/", "c", "o", "n", "f", "i", "g">>, <<"/", ".", "g", "i", "t", "/", "c", "o", "n", "f", "i", "g">>,
                <<"p", "a", "g", "e", "s", "/", ".", ".", "/", ".", ".", "/", "e", "t", "c", "/", "x", ".", "m", "d">>, <<"n", "e", "w", ".", "m", "d">>, <<"a", ".", "e", "x", "e">>}
MoveTargets == {PagesA, <<"n", "e", "w", ".", "m", "d">>, <<".", "/", ".", "l", "o", "g", "s", "e", "q", "/", "x", ".", "m", "d">>, <<"p", "a", "g", "e", "s", "/", ".", ".", "/", ".", ".", "/", "e", "t", "c", "/", "x", ".", "m", "d">>}
BatchArgs ==
    {<<PagesA>>, <<<<"/", ".", "g", "i", "t", "/", "c", "o", "n", "f", "i", "g">>, PagesA>>, <<<<".", "g", "i", "t", "/", "c", "o", "n", "f", "i", "g">>, <<"n", "e", "w", ".", "m", "d">>>>,
     <<<<"p", "a", "g", "e", "s", "/", ".", ".", "/", ".", ".", "/", "e", "t", "c", "/", "x", ".", "m", "d">>, <<".", "/", ".", "l", "o", "g", "s", "e", "q", "/", "x", ".", "m", "d">>>>}
NewContent == <<"n">>
OldStrings == {<<"a">>, <<" ">>, <<"z">>}
NewStrings == {<<"a">>, <<"b">>}
WriteModes == {"overwrite", "append", "prepend"}

\* the files of the disk at the start: path |-> content
FileA == <<"a", "\n", "a">>
InitialDisk ==
    (GraphPath \o <<<<"p", "a", "g", "e", "s">>, <<"l", "o", "c", "k", "e", "d", ".", "m", "d">>>>) :> <<"k">>
    @@ (GraphPath \o <<<<"p", "a", "g", "e", "s">>, <<"a", ".", "m", "d">>>>) :> FileA
    @@ (GraphPath \o <<<<".", "g", "i", "t">>, <<"c", "o", "n", "f", "i", "g">>>>) :> <<"c">>
    @@ (GraphPath \o <<<<".", "l", "o", "g", "s", "e", "q">>, <<"x", ".", "m", "d">>>>) :> <<"l">>
    @@ (GraphPath \o <<<<"n", "o", "d", "e", "_", "m", "o", "d", "u", "l", "e", "s">>, <<"p">>, <<"R", "E", "A", "D", "M", "E", ".", "m", "d">>>>) :> <<"r">>
    @@ <<<<"e", "t", "c">>, <<"x", ".", "m", "d">>>> :> <<"e">>

\* the number of calls a run makes
MaxCalls == 2

NoCall == [op |-> "none", path |-> <<>>, other |-> <<>>, flag |-> FALSE]
Call(op, path, other, flag) == [op |-> op, path |-> path, other |-> other, flag |-> flag]
NoReturn == [thrown |-> FALSE, kind |-> "none", value |-> <<>>]

\* a call runs to its end: its outcome, the disk it leaves and the files it touched
FsApply(call, out) ==
    /\ fsCalls < MaxCalls
    /\ diskBefore' = disk
    /\ disk' = out.disk
    /\ fsCall' = call
    /\ fsReturn' = [thrown |-> out.thrown, kind |-> out.kind, value |-> out.value]
    /\ fsAccess' = out.access
    /\ fsUuids' = out.calls
    /\ fsCalls' = fsCalls + 1

FsInit ==
    /\ disk = InitialDisk /\ diskBefore = InitialDisk /\ fsCall = NoCall
    /\ fsReturn = NoReturn /\ fsAccess = {} /\ fsUuids = 0 /\ fsCalls = 0

ReadPage ==
    \E p \in PagePathArgs :
        FsApply(Call("readPage", p, <<>>, FALSE), readPage(disk, p, fsUuids))
WritePage ==
    \E p \in PagePathArgs, mode \in WriteModes :
        FsApply(Call("writePage", p, mode, FALSE),
                writePage(disk, p, NewContent, mode, fsUuids))
PatchNote ==
    \E p \in PatchPaths, o \in OldStrings, n \in NewStrings, all \in BOOLEAN :
        FsApply(Call("patchNote", p, <<o, n>>, all), patchNote(disk, p, o, n, all, fsUuids))
DeleteNote ==
    \E p \in PathArgs : \E c \in ConfirmArgs(p) :
        FsApply(Call("deleteNote", p, c, FALSE), deleteNote(disk, p, c, fsUuids))
MoveNote ==
    \E p \in MoveSources, q \in MoveTargets, overwrite \in BOOLEAN :
        FsApply(Call("moveNote", p, q, overwrite), moveNote(disk, p, q, overwrite, fsUuids))
ReadMultiplePages ==
    \E ps \in BatchArgs :
        FsApply(Call("readMultiplePages", <<>>, ps, FALSE),
                readMultiplePages(disk, ps, fsUuids))
GetNotesInfo ==
    \E ps \in BatchArgs :
        FsApply(Call("getNotesInfo", <<>>, ps, FALSE), getNotesInfo(disk, ps, fsUuids))

InitFs == FsInit /\ ParserIdle /\ RefIdle /\ SearchIdle /\ TaskIdle /\ LaterIdle
NextFs ==
    \/ ReadPage /\ UNCHANGED <<parserVars, refVars, searchVars, taskVars, laterVars>>
    \/ WritePage /\ UNCHANGED <<parserVars, refVars, searchVars, taskVars, laterVars>>
    \/ PatchNote /\ UNCHANGED <<parserVars, refVars, searchVars, taskVars, laterVars>>
    \/ DeleteNote /\ UNCHANGED <<parserVars, refVars, searchVars, taskVars, laterVars>>
    \/ MoveNote /\ UNCHANGED <<parserVars, refVars, searchVars, taskVars, laterVars>>
    \/ ReadMultiplePages /\ UNCHANGED <<parserVars, refVars, searchVars, taskVars, laterVars>>
    \/ GetNotesInfo /\ UNCHANGED <<parserVars, refVars, searchVars, taskVars, laterVars>>
SpecFs == InitFs /\ [][NextFs]_vars

-----------------------------------------------------------------------------
(* Properties of the path checks *)

InGraph(full) == StartsWith(full, GraphPath)
RestrictedNames == {<<".", "l", "o", "g", "s", "e", "q">>, <<".", "g", "i", "t">>, <<"n", "o", "d", "e", "_", "m", "o", "d", "u", "l", "e", "s">>}
\* a file under the graph's .logseq/, .git/ or node_modules/ directory
Restricted(full) ==
    /\ InGraph(full)
    /\ Len(full) > Len(GraphPath) + 1
    /\ full[Len(GraphPath) + 1] \in RestrictedNames
\* the path arguments of the call in fsCall
CallPaths ==
    IF fsCall.op \in {"readMultiplePages", "getNotesInfo"}
    THEN {fsCall.other[k] : k \in 1..Len(fsCall.other)}
    ELSE IF fsCall.op = "moveNote" THEN {fsCall.path, fsCall.other}
    ELSE IF fsCall.op = "none" THEN {}
    ELSE {fsCall.path}
\* where a path argument leads, whether or not it stays in the graph
Target(p) == PathResolve(GraphPath, IF StartsWith(trim(p), <<"/">>) THEN Tail(trim(p)) ELSE trim(p))
PathOps == {"readPage", "writePage", "patchNote", "deleteNote", "moveNote",
            "readMultiplePages", "getNotesInfo"}

\* C15: no call of readPage, writePage, patchNote, deleteNote, moveNote,
\* readMultiplePages or getNotesInfo reads, writes or unlinks a file under
\* .logseq/, .git/ or node_modules/ of the graph, and it leaves the disk there
\* as it was, whatever the spelling of the path.
C15_RestrictedFiles ==
    fsCall.op \in PathOps =>
        /\ \A a \in fsAccess : ~Restricted(a.path)
        /\ \A q \in DOMAIN disk \cup DOMAIN diskBefore :
               Restricted(q) => q \in DOMAIN disk /\ q \in DOMAIN diskBefore
                                /\ disk[q] = diskBefore[q]

\* C16: resolvePath returns a path inside the graph root or throws, and no
\* call reads, writes or unlinks a file outside the graph root: the files
\* outside are as they were.
C16_InsideGraph ==
    /\ \A p \in CallPaths :
           resolvePath(p).thrown \/ InGraph(resolvePath(p).fullPath)
    /\ \A p \in CallPaths :
           ~InGraph(Target(p)) => resolvePath(p).thrown
    /\ \A a \in fsAccess : InGraph(a.path)
    /\ \A q \in DOMAIN disk \cup DOMAIN InitialDisk :
           ~InGraph(q) => q \in DOMAIN disk /\ q \in DOMAIN InitialDisk
                          /\ disk[q] = InitialDisk[q]
\* a call whose path leaves the graph through an inner `..` was refused with
\* the traversal error, the file it names outside the graph still there
C16_Witness ==
    /\ fsCall.op \in {"readPage", "writePage", "deleteNote"}
    /\ fsCall.path = <<"p", "a", "g", "e", "s", "/", ".", ".", "/", ".", ".", "/", "e", "t", "c", "/", "x", ".", "m", "d">>
    /\ fsCall.op = "deleteNote" => fsCall.other = fsCall.path
    /\ fsReturn.thrown /\ fsReturn.kind = "traversal"
    /\ Target(fsCall.path) \in DOMAIN disk
    /\ fsAccess = {}

\* the deletion deleteNote was asked for did not take place
DeleteFailed == fsCall.op = "deleteNote" /\ fsReturn.kind # "ok"
ReturnedFailure == ~fsReturn.thrown /\ fsReturn.kind # "ok" /\ disk = diskBefore

-----------------------------------------------------------------------------
(* filesystem.ts: appendBlock, createBlockRef, getBlockRefs *)

\* block-ref.ts createBlockRef: `((${uuid}))`
createBlockRefString(uuid) == OpenParens \o uuid \o CloseParens

\* newBlock of appendBlock, before it is placed; options.properties is left out
NewAppended(uuid, content, path) ==
    [uuid       |-> uuid,
     content    |-> content,
     level      |-> 0,
     properties |-> <<>>,
     children   |-> <<>>,
     sourcePath |-> path,
     marker     |-> Absent,
     priority   |-> Absent,
     parentUuid |-> Absent]
\* parent.children.push(newBlock) with level and parentUuid set
AppendChild(f, parent, block) ==
    [nodes |-> Append([f.nodes EXCEPT ![parent].children = Append(@, Len(f.nodes) + 1)],
                      [block EXCEPT !.level = f.nodes[parent].level + 1,
                                    !.parentUuid = f.nodes[parent].uuid]),
     roots |-> f.roots]
\* page.blocks.push(newBlock)
AppendRoot(f, block) ==
    [nodes |-> Append(f.nodes, block), roots |-> Append(f.roots, Len(f.nodes) + 1)]

\* appendBlock returns newBlock once writePage has returned
AppendDone(newBlock, w, access) ==
    Outcome(w.thrown, w.kind, IF w.thrown THEN <<>> ELSE newBlock, w.disk,
            access \cup w.access, w.calls)
AppendWrite(d, path, f, access, calls) ==
    AppendDone(f.nodes[Len(f.nodes)],
               writePage(d, path, serializeBlocks(f), "overwrite", calls), access)
AppendPlaced(d, path, parentUuid, page, block, calls, parent) ==
    IF parentUuid # Absent /\ parent = 0
    THEN Outcome(TRUE, "noparent", <<>>, d, page.access, calls)
    ELSE AppendWrite(d, path,
                     IF parentUuid # Absent
                     THEN AppendChild(page.value.forest, parent, block)
                     ELSE AppendRoot(page.value.forest, block),
                     page.access, calls)
AppendRead(d, path, content, parentUuid, uuid, page) ==
    IF page.thrown THEN page
    ELSE AppendPlaced(d, path, parentUuid, page,
                      NewAppended(IF uuid = Absent THEN uuidv4(page.calls + 1) ELSE uuid,
                                  content, path),
                      page.calls + (IF uuid = Absent THEN 1 ELSE 0),
                      IF parentUuid = Absent THEN 0
                      ELSE findBlockByUuid(page.value.forest, parentUuid))
\* options.parentUuid and options.uuid are Absent when not given
appendBlock(d, path, content, parentUuid, uuid, calls) ==
    AppendRead(d, path, content, parentUuid, uuid, readPage(d, path, calls))

RefDone(w, access) ==
    Outcome(w.thrown, w.kind, <<>>, w.disk, access \cup w.access, w.calls)
\* block.content = (block.content + ' ' + ref).trim(), then the page is rewritten
RefFound(d, targetPath, refUuid, page, block) ==
    IF block = 0 THEN Outcome(TRUE, "noblock", <<>>, d, page.access, page.calls)
    ELSE RefDone(writePage(d, targetPath,
                           serializeBlocks(
                               [page.value.forest EXCEPT !.nodes[block].content =
                                    trim(@ \o <<" ">> \o createBlockRefString(refUuid))]),
                           "overwrite", page.calls),
                 page.access)
RefRead(d, targetPath, targetBlockUuid, refUuid, page) ==
    IF page.thrown THEN page
    ELSE RefFound(d, targetPath, refUuid, page,
                  findBlockByUuid(page.value.forest, targetBlockUuid))
createBlockRef(d, targetPath, targetBlockUuid, refUuid, calls) ==
    RefRead(d, targetPath, targetBlockUuid, refUuid, readPage(d, targetPath, calls))

MdExtension == <<".", "m", "d">>
\* findMarkdownFiles(this.graphPath): the mdFiles of the graph whose name ends
\* with .md, in every directory
MarkdownFiles(d) ==
    {q \in DOMAIN d : InGraph(q) /\ Len(q) > Len(GraphPath) /\ EndsWith(q[Len(q)], MdExtension)}
\* the orders readdir may list them in
Orders(S) ==
    {o \in [1..Cardinality(S) -> S] : \A i, j \in 1..Cardinality(S) : o[i] = o[j] => i = j}

\* the blocks of a page, depth-first, that hold a reference to lower
RefsOfPage(f, flat, rel, lower) ==
    [k \in 1..Len(flat) |-> [block |-> f.nodes[flat[k]], path |-> rel]]
RefsInPage(f, rel, lower) ==
    RefsOfPage(f,
               SelectSeq(flattenBlocks(f),
                         LAMBDA n : \E k \in 1..Len(extractBlockRefs(f.nodes[n].content)) :
                                        extractBlockRefs(f.nodes[n].content)[k] = lower),
               rel, lower)
RECURSIVE RefsScan(_, _, _, _, _)
\* one file of the loop of getBlockRefs: skipped when filtered or unreadable
RefsFile(d, mdFiles, k, lower, out, rel, page) ==
    RefsScan(d, mdFiles, k + 1, lower,
             IF page.thrown THEN [out EXCEPT !.calls = page.calls]
             ELSE [results |-> out.results \o RefsInPage(page.value.forest, rel, lower),
                   access  |-> out.access \cup page.access,
                   calls   |-> page.calls])
RefsRel(d, mdFiles, k, lower, out, rel) ==
    IF ~isAllowed(rel) THEN RefsScan(d, mdFiles, k + 1, lower, out)
    ELSE RefsFile(d, mdFiles, k, lower, out, rel, readPage(d, rel, out.calls))
RefsScan(d, mdFiles, k, lower, out) ==
    IF k > Len(mdFiles) THEN out
    ELSE RefsRel(d, mdFiles, k, lower, out, SlashPath(PathRelative(GraphPath, mdFiles[k])))
RefsOutcome(d, out) == Outcome(FALSE, "ok", out.results, d, out.access, out.calls)
\* mdFiles: the markdown mdFiles in the order findMarkdownFiles returned them
getBlockRefs(d, uuid, mdFiles, calls) ==
    RefsOutcome(d, RefsScan(d, mdFiles, 1, toLowerCase(uuid),
                            [results |-> <<>>, access |-> {}, calls |-> calls]))

-----------------------------------------------------------------------------
(* Block operations: the calls and their inputs *)

Uuid3 == UuidOf("3")
Uuid9 == UuidOf("9")
UuidLowerB == UuidOf("b")
UuidUpperB == UuidOf("B")
NotesTxt == <<"n", "o", "t", "e", "s", ".", "t", "x", "t">>
PagesB == <<"p", "a", "g", "e", "s", "/", "b", ".", "m", "d">>
MyId == <<"m", "y", "-", "i", "d">>

\* a page of two blocks with tab-indented ids, a text page of one block, and
\* a page that refers to a block
BodyA == join(<<LineParent, <<"\t">> \o IdPrefix \o Uuid1,
                LineChild, <<"\t", "\t">> \o IdPrefix \o Uuid2>>)
BodyNotes == join(<<<<"-", " ", "N", "o", "t", "e">>, <<"\t">> \o IdPrefix \o Uuid3>>)
BodyB == join(<<<<"-", " ", "S", "e", "e", " ">> \o createBlockRefString(Uuid1)>>)
\* a page with a paragraph above its one block
PagesC == <<"p", "a", "g", "e", "s", "/", "c", ".", "m", "d">>
BodyC == join(<<<<"I", "n", "t", "r", "o">>, <<"-", " ", "I", "t", "e", "m">>, <<"\t">> \o IdPrefix \o Uuid3>>)
BlockDisk ==
    (GraphPath \o <<<<"p", "a", "g", "e", "s">>, <<"c", ".", "m", "d">>>>) :> BodyC
    @@ (GraphPath \o <<<<"p", "a", "g", "e", "s">>, <<"a", ".", "m", "d">>>>) :> BodyA
    @@ (GraphPath \o <<NotesTxt>>) :> BodyNotes
    @@ (GraphPath \o <<<<"p", "a", "g", "e", "s">>, <<"b", ".", "m", "d">>>>) :> BodyB

BlockPaths == {PagesA, PagesC, NotesTxt, <<"n", "e", "w", ".", "m", "d">>}
AppendContents == {<<"x">>, <<"T", "O", "D", "O", " ", "x">>, <<" ", "x", " ">>, <<"x">> \o <<"\n">> \o <<"-", " ", "y">>}
ParentArgs == {Absent, Uuid1, Uuid9}
UuidArgs == {Absent, UuidLowerB, MyId}
TargetArgs == {Uuid1, Uuid3, Uuid9}
RefArgs == {Uuid2, UuidUpperB}
QueryArgs == {Uuid1, UuidUpperB, UuidLowerB}

\* the number of block operations a run makes
MaxBlockCalls == 1

BlockInit ==
    /\ disk = BlockDisk /\ diskBefore = BlockDisk /\ fsCall = NoCall
    /\ fsReturn = NoReturn /\ fsAccess = {} /\ fsUuids = 0 /\ fsCalls = 0

AppendBlock ==
    /\ fsCalls < MaxBlockCalls
    /\ \E p \in BlockPaths, c \in AppendContents, parent \in ParentArgs, u \in UuidArgs :
           FsApply(Call("appendBlock", p, <<c, parent, u>>, FALSE),
                   appendBlock(disk, p, c, parent, u, fsUuids))
CreateBlockRef ==
    /\ fsCalls < MaxBlockCalls
    /\ \E p \in BlockPaths, t \in TargetArgs, r \in RefArgs :
           FsApply(Call("createBlockRef", p, <<t, r>>, FALSE),
                   createBlockRef(disk, p, t, r, fsUuids))
GetBlockRefs ==
    /\ fsCalls < MaxBlockCalls
    /\ \E u \in QueryArgs, mdFiles \in Orders(MarkdownFiles(disk)) :
           FsApply(Call("getBlockRefs", <<>>, <<u, mdFiles>>, FALSE),
                   getBlockRefs(disk, u, mdFiles, fsUuids))

InitBlocks == BlockInit /\ ParserIdle /\ RefIdle /\ SearchIdle /\ TaskIdle /\ LaterIdle
NextBlocks ==
    \/ AppendBlock /\ UNCHANGED <<parserVars, refVars, searchVars, taskVars, laterVars>>
    \/ CreateBlockRef /\ UNCHANGED <<parserVars, refVars, searchVars, taskVars, laterVars>>
    \/ GetBlockRefs /\ UNCHANGED <<parserVars, refVars, searchVars, taskVars, laterVars>>
SpecBlocks == InitBlocks /\ [][NextBlocks]_vars

-----------------------------------------------------------------------------
(* Properties of the block operations *)

\* the page a call named, as readPage gives it after and before the call
PageAfter == readPage(disk, fsCall.path, fsUuids)
PageBefore == readPage(diskBefore, fsCall.path, 0)
LastOf(s) == s[Len(s)]
\* the blocks of forest f with that uuid
WithUuid(f, uuid) == {n \in 1..Len(f.nodes) : f.nodes[n].uuid = uuid}

\* the new block sits where appendBlock was asked to put it
AppendedAt(f, n, parentUuid) ==
    IF parentUuid = Absent
    THEN /\ f.roots # <<>> /\ LastOf(f.roots) = n
         /\ f.nodes[n].level = 0
         /\ f.nodes[n].parentUuid = Absent
    ELSE \E p \in WithUuid(f, parentUuid) :
             /\ f.nodes[p].children # <<>> /\ LastOf(f.nodes[p].children) = n
             /\ f.nodes[n].level = f.nodes[p].level + 1
             /\ f.nodes[n].parentUuid = parentUuid

\* C18: after appendBlock returned, the page read again has one block more
\* than before, and a block with the returned uuid and the given content as
\* the last child of the parent, one level below it, or as the last root at
\* level 0; with a parentUuid that matches no block of the page it throws and
\* the disk is unchanged.
C18_AppendBlock ==
    fsCall.op = "appendBlock" =>
        /\ (~fsReturn.thrown) =>
               /\ ~PageAfter.thrown
               /\ Len(PageAfter.value.forest.nodes) = Len(PageBefore.value.forest.nodes) + 1
               /\ \E n \in WithUuid(PageAfter.value.forest, fsReturn.value.uuid) :
                      /\ PageAfter.value.forest.nodes[n].content = fsCall.other[1]
                      /\ AppendedAt(PageAfter.value.forest, n, fsCall.other[2])
        /\ (/\ ~PageBefore.thrown
            /\ fsCall.other[2] # Absent
            /\ WithUuid(PageBefore.value.forest, fsCall.other[2]) = {})
               => fsReturn.thrown /\ disk = diskBefore

IsWellFormed(uuid) == isValidBlockUuid(uuid)
LetterCases(uuid) == {uuid, toLowerCase(uuid), toUpperCase(uuid)}
\* getBlockRefs(uuid) lists the block with that uuid of the page at path
ListsBlock(found, blockUuid, path) ==
    \E k \in 1..Len(found) :
        /\ found[k].block.uuid = blockUuid
        /\ resolvePath(found[k].path) = resolvePath(path)

\* C19: after createBlockRef(targetPath, targetBlockUuid, refUuid) returned
\* with a well-formed refUuid, the target block's content ends with
\* ((refUuid)) and getBlockRefs(refUuid), in any letter case and for any order
\* of the mdFiles, lists that block at targetPath; with no block of that uuid in
\* the page it throws and the disk is unchanged.
C19_CreateBlockRef ==
    fsCall.op = "createBlockRef" =>
        /\ (~fsReturn.thrown /\ IsWellFormed(fsCall.other[2])) =>
               /\ ~PageAfter.thrown
               /\ \E n \in WithUuid(PageAfter.value.forest, fsCall.other[1]) :
                      EndsWith(PageAfter.value.forest.nodes[n].content,
                               createBlockRefString(fsCall.other[2]))
               /\ \A u \in LetterCases(fsCall.other[2]) :
                      \A mdFiles \in Orders(MarkdownFiles(disk)) :
                          ListsBlock(getBlockRefs(disk, u, mdFiles, fsUuids).value,
                                     fsCall.other[1], fsCall.path)
        /\ (/\ ~PageBefore.thrown
            /\ WithUuid(PageBefore.value.forest, fsCall.other[1]) = {})
               => fsReturn.thrown /\ disk = diskBefore

\* ---------------------------------------------------------------------------
\* serializeBlocks: the text written for a forest
\* ---------------------------------------------------------------------------

\* the number of lines of a serialized text (the empty text has none)
LineCount(s) == IF s = <<>> THEN 0 ELSE Len(split(s))

RECURSIVE SumOver(_, _)
\* the sum of 2 + number of properties over the blocks idxs of f
SumOver(f, idxs) ==
    IF idxs = <<>> THEN 0
    ELSE 2 + Len(f.nodes[Head(idxs)].properties) + SumOver(f, Tail(idxs))

RECURSIVE LinesByLevel(_, _)
\* the lines the blocks idxs of f and their descendants have when each block
\* is indented by its own level
LinesByLevel(f, idxs) ==
    IF idxs = <<>> THEN <<>>
    ELSE
    LET b == f.nodes[Head(idxs)]
    IN  <<Repeat("\t", b.level) \o <<"-", " ">> \o b.content>>
        \o <<Repeat("\t", b.level + 1) \o IdPrefix \o b.uuid>>
        \o [i \in 1..Len(b.properties) |->
               Repeat("\t", b.level + 1) \o b.properties[i].k
                   \o <<":", ":", " ">> \o b.properties[i].v.v]
        \o LinesByLevel(f, b.children)
        \o LinesByLevel(f, Tail(idxs))

Serialized == pc \in {"serialized", "reparsed"}

\* C21: the serialized text is, in pre-order, for each block a line of `level`
\* tabs + `- ` + content, an `id:: <uuid>` line at level + 1, one `key:: value`
\* line per property at level + 1, then the children, joined by single
\* newlines; it has sum over blocks of (2 + number of properties) lines.
C21_Serialize ==
    Serialized =>
        /\ text = join(LinesByLevel(forest, forest.roots))
        /\ LineCount(text) = SumOver(forest, flattenBlocks(forest))

\* the line count alone (no block content of a parsed forest holds a newline)
C21_LineCount ==
    Serialized => LineCount(text) = SumOver(forest, flattenBlocks(forest))

\* ---------------------------------------------------------------------------
\* SearchService.search: the result pushed for one block of the block loop
\* ---------------------------------------------------------------------------

\* the characters of context kept on each side of the query
ExcerptContext == 21
\* the length of the excerpt used when the excerpt is empty
FallbackLength == 42

\* s.slice(a, b) for 0 <= a, with 0-based positions
slice(s, a, b) == SubSeq(s, a + 1, Min(b, Len(s)))

\* s.indexOf(sub): the 0-based position of the first occurrence, -1 for none
indexOf(s, sub) == indexOfFrom(s, sub, 1) - 1

RECURSIVE JsonMembers(_, _)
\* the members of JSON.stringify(properties) from the i-th property on
JsonMembers(props, i) ==
    IF i > Len(props) THEN <<>>
    ELSE (IF i > 1 THEN <<",">> ELSE <<>>)
         \o <<"\"">> \o props[i].k \o <<"\"", ":">>
         \o (IF props[i].v.t = "string"
             THEN <<"\"">> \o props[i].v.v \o <<"\"">>
             ELSE props[i].v.v)
         \o JsonMembers(props, i + 1)

\* JSON.stringify(block.properties)
JsonStringify(props) == <<"{">> \o JsonMembers(props, 1) \o <<"}">>

\* Math.max(0, block.content.indexOf(query) - 21)
ExcerptStart(content, q) == Max(0, indexOf(content, q) - ExcerptContext)

\* Math.min(block.content.length, block.content.indexOf(query) + query.length + 21)
ExcerptEnd(content, q) ==
    Min(Len(content), indexOf(content, q) + Len(q) + ExcerptContext)

Ellipsis == <<".", ".", ".">>

\* the excerpt of a block result, before the fallback
Excerpt(content, q) ==
    LET excerptStart == ExcerptStart(content, q)
        excerptEnd   == ExcerptEnd(content, q)
    IN  (IF excerptStart > 0 THEN Ellipsis ELSE <<>>)
        \o trim(slice(content, excerptStart, excerptEnd))
        \o (IF excerptEnd < Len(content) THEN Ellipsis ELSE <<>>)

\* ex: excerpt || block.content.slice(0, 42)
ExcerptOrFallback(content, q) ==
    IF Excerpt(content, q) # <<>> THEN Excerpt(content, q)
    ELSE slice(content, 0, FallbackLength)

\* blockText, lower-cased unless the search is case sensitive
BlockSearchText(b, caseSensitive) ==
    LET blockText == b.content \o <<" ">> \o JsonStringify(b.properties)
    IN  IF caseSensitive THEN blockText ELSE toLowerCase(blockText)

\* searchQuery
SearchQuery(p) == IF p.caseSensitive THEN p.query ELSE toLowerCase(p.query)

\* the body of the block loop for block b: the result pushed, if any
PushedResult(b, p) ==
    IF indexOfFrom(BlockSearchText(b, p.caseSensitive), SearchQuery(p), 1) # 0
    THEN <<[ex |-> ExcerptOrFallback(b.content, p.query),
            mc |-> SplitCount(BlockSearchText(b, p.caseSensitive), SearchQuery(p), 1)]>>
    ELSE <<>>

\* block contents: padding, a word, padding; a parsed content is trimmed
Pad(n) == [i \in 1..n |-> IF i % 5 = 0 THEN " " ELSE "x"]
ExLeft  == {<<>>, Pad(4), Pad(21) \o <<"y">>, Pad(24) \o <<"y">>}
ExWords == {<<"t", "o", "d", "o">>, <<"T", "O", "D", "O">>, <<"T", "O", "D", "O", " ", "a", "n", "d", " ", "t", "o", "d", "o">>, <<"n", "o", "n", "e">>}
ExRight == {<<>>, <<"y">> \o Pad(19) \o <<"y">>, <<"y">> \o Pad(24) \o <<"y">>,
            <<"y">> \o Pad(29) \o <<"y", " ", "t", "o", "d", "o">>}
ExContents == {l \o w \o r : l \in ExLeft, w \in ExWords, r \in ExRight}
ExProperties == {<<>>, <<[k |-> <<"t", "a", "g">>, v |-> StringValue(<<"t", "o", "d", "o">>)]>>}
ExQueries == {<<"t", "o", "d", "o">>, <<"T", "O", "D", "O">>, <<"y">>}

ExcerptInit ==
    /\ exBlock \in [content : ExContents, properties : ExProperties]
    /\ exParams \in [query : ExQueries, caseSensitive : BOOLEAN]
    /\ exPushed = <<>>

\* one iteration of `for (const block of flat)`
PushBlockResult ==
    /\ exPushed = <<>>
    /\ exPushed' = PushedResult(exBlock, exParams)
    /\ UNCHANGED <<exBlock, exParams>>

InitExcerpt ==
    /\ ExcerptInit /\ RegexIdle /\ StatsIdle
    /\ ParserIdle /\ RefIdle /\ SearchIdle /\ TaskIdle /\ FsIdle
NextExcerpt ==
    PushBlockResult
        /\ UNCHANGED <<parserVars, refVars, searchVars, taskVars, fsVars,
                       regexVars, statsVars>>
SpecExcerpt == InitExcerpt /\ [][NextExcerpt]_vars

\* the block content under the selected case sensitivity
ExFolded(s) == IF exParams.caseSensitive THEN s ELSE toLowerCase(s)

\* the 0-based position of the first occurrence of the query in the block
\* content under the selected case sensitivity, -1 for none
QueryAt == indexOf(ExFolded(exBlock.content), ExFolded(exParams.query))

\* ex is the part [a, b) of the content, trimmed or not, with the ellipses
IsExcerptOf(ex, content, a, b) ==
    \E core \in {slice(content, a, b), trim(slice(content, a, b))} :
        ex = (IF a > 0 THEN Ellipsis ELSE <<>>) \o core
             \o (IF b < Len(content) THEN Ellipsis ELSE <<>>)

\* C22: for a block result whose block content contains the query under the
\* selected case sensitivity, ex is a part of the content that contains the
\* first occurrence of the query with at most 21 characters of context on
\* each side, prefixed with `...` exactly when it starts after the beginning
\* of the content and suffixed with `...` exactly when it ends before its end.
C22_Excerpt ==
    (exPushed # <<>> /\ QueryAt >= 0) =>
        \E a \in 0..QueryAt :
            \E b \in (QueryAt + Len(exParams.query))..Len(exBlock.content) :
                /\ QueryAt - a <= ExcerptContext
                /\ b - (QueryAt + Len(exParams.query)) <= ExcerptContext
                /\ IsExcerptOf(exPushed[1].ex, exBlock.content, a, b)

\* the same for case-sensitive searches only
C22_ExcerptCaseSensitive ==
    exParams # <<>> /\ exParams.caseSensitive => C22_Excerpt

\* ---------------------------------------------------------------------------
\* SearchService.search: files that cannot be read
\* ---------------------------------------------------------------------------

\* a readable file that holds the query nowhere
SilentFile == File(TRUE, TRUE, FALSE, FALSE, FALSE, <<>>)

\* the corpus with every unreadable file replaced by a silent one
OtherFiles(fs) ==
    [i \in 1..Len(fs) |-> IF fs[i].allowed /\ ~fs[i].readable THEN SilentFile ELSE fs[i]]

RECURSIVE ResultsOf(_, _, _, _, _)
\* the results of the file loop over the readable corpus fs from file i on
ResultsOf(fs, i, res, cap, o) ==
    IF i > Len(fs) THEN res
    ELSE IF ~fs[i].allowed THEN ResultsOf(fs, i + 1, res, cap, o)
    ELSE IF LengthReaches(res, cap) THEN res
    ELSE ResultsOf(fs, i + 1, ScanFile(res, fs[i], i, cap, o), cap, o)

\* C23: a file whose read fails contributes no result, the other files are
\* scanned in traversal order (up to the limit's break), and search returns
\* normally with the results the other files give: it only throws for an
\* empty query.
C23_FailedFileSkipped ==
    /\ spc = "thrown" => QueryIsEmpty(query)
    /\ spc = "done" =>
        /\ results = ResultsOf(OtherFiles(files), 1, <<>>, maxLimit(limit), options)
        /\ \A k \in 1..Len(results) : files[results[k].p].readable
        /\ \A j, k \in 1..Len(readFiles) : j < k => readFiles[j] < readFiles[k]
        /\ \A i \in 1..Len(files) :
               (files[i].allowed /\ \A k \in 1..Len(readFiles) : readFiles[k] # i)
                   => LengthReaches(results, maxLimit(limit))

\* a search that is done, read an unreadable file and has a result of a later file
C23_Witness ==
    /\ spc = "done"
    /\ \E j, k \in 1..Len(readFiles) :
           /\ j < k
           /\ ~files[readFiles[j]].readable
           /\ \E r \in 1..Len(results) : results[r].p = readFiles[k]

\* ---------------------------------------------------------------------------
\* hasBlockRef: BLOCK_REF_REGEX is one module-level object with the g flag
\* ---------------------------------------------------------------------------

\* BLOCK_REF_REGEX.test(s) with BLOCK_REF_REGEX.lastIndex = last: the search
\* starts at lastIndex; a match sets lastIndex to its end, a failure to 0
RegExpTest(s, last) ==
    LET m == IF last > Len(s) THEN 0 ELSE FirstRef(s, last + 1)
    IN  IF m = 0 THEN [answer |-> FALSE, lastIndex |-> 0]
        ELSE [answer |-> TRUE, lastIndex |-> m + 39]

\* a resolveUuid that finds no block
NoBlocks == [u \in RefUuids |-> Null]

HbContents ==
    {<<>>, SeeText, MalformedText, RefToken(Uuid1),
     SeeText \o RefToken(Uuid1) \o ForDetailsText,
     RefToken(UuidUpperA) \o RefToken(Uuid1)}

\* the largest number of calls of a run
MaxHasCalls == 3

HasInit == reLastIndex = 0 /\ hbContent \in HbContents /\ hbReturns = <<>>

\* hasBlockRef(content)
HasBlockRef ==
    /\ Len(hbReturns) < MaxHasCalls
    /\ \E c \in HbContents :
        \E r \in {RegExpTest(c, reLastIndex)} :
           /\ hbContent' = c
           /\ reLastIndex' = r.lastIndex
           /\ hbReturns' = Append(hbReturns,
                  [fn |-> "hasBlockRef", content |-> c, returned |-> r.answer])

\* resolveBlockRefs(content, resolveUuid): content.replace(BLOCK_REF_REGEX, ...)
\* starts at 0 and leaves lastIndex at 0
ResolveBlockRefs ==
    /\ Len(hbReturns) < MaxHasCalls
    /\ \E c \in HbContents :
           /\ hbContent' = c
           /\ reLastIndex' = 0
           /\ hbReturns' = Append(hbReturns,
                  [fn |-> "resolveBlockRefs", content |-> c,
                   returned |-> resolveBlockRefs(c, NoBlocks)])

InitHas ==
    /\ HasInit /\ ExcerptIdle /\ StatsIdle
    /\ ParserIdle /\ RefIdle /\ SearchIdle /\ TaskIdle /\ FsIdle
NextHas ==
    \/ HasBlockRef /\ UNCHANGED <<parserVars, refVars, searchVars, taskVars, fsVars,
                                  excerptVars, statsVars>>
    \/ ResolveBlockRefs /\ UNCHANGED <<parserVars, refVars, searchVars, taskVars, fsVars,
                                       excerptVars, statsVars>>
SpecHas == InitHas /\ [][NextHas]_vars

\* content contains a well-formed ((uuid)) token
ContainsToken(content) == \E k \in 1..Len(content) : BLOCK_REF_REGEX(content, k)

\* C24: every call of hasBlockRef returns true if and only if its content
\* contains a well-formed ((uuid)) token, whatever calls of hasBlockRef or
\* resolveBlockRefs were made before; two consecutive calls on the same
\* content return the same answer.
C24_HasBlockRef ==
    /\ \A i \in 1..Len(hbReturns) :
           hbReturns[i].fn = "hasBlockRef"
               => hbReturns[i].returned = ContainsToken(hbReturns[i].content)
    /\ \A i \in 1..(Len(hbReturns) - 1) :
           (/\ hbReturns[i].fn = "hasBlockRef"
            /\ hbReturns[i + 1].fn = "hasBlockRef"
            /\ hbReturns[i].content = hbReturns[i + 1].content)
               => hbReturns[i].returned = hbReturns[i + 1].returned

\* the first call of hasBlockRef after the module is loaded, or after a call
\* of resolveBlockRefs, answers whether the content contains a token
C24_FirstCall ==
    \A i \in 1..Len(hbReturns) :
        (/\ hbReturns[i].fn = "hasBlockRef"
         /\ (i = 1 \/ hbReturns[i - 1].fn = "resolveBlockRefs"))
            => hbReturns[i].returned = ContainsToken(hbReturns[i].content)

\* ---------------------------------------------------------------------------
\* moveNote, writePage and patchNote: what is left on the disk
\* ---------------------------------------------------------------------------

MoveSucceeded == fsCall.op = "moveNote" /\ ~fsReturn.thrown /\ fsReturn.kind = "ok"
MoveRefused   == fsCall.op = "moveNote" /\ ~fsReturn.thrown /\ fsReturn.kind # "ok"

\* the file full is on the disk as it was before the call
Kept(full) ==
    full \in DOMAIN diskBefore => full \in DOMAIN disk /\ disk[full] = diskBefore[full]

\* C25: when moveNote returns success=true the file at newPath exists and
\* holds the content oldPath had before the call, for all oldPath and newPath
\* (oldPath equal to newPath with overwrite=true included); when it returns
\* success=false the source file is still there with its content; without
\* overwrite an existing target is never modified.
C25_MoveNote ==
    /\ MoveSucceeded =>
           /\ Target(fsCall.other) \in DOMAIN disk
           /\ disk[Target(fsCall.other)] = diskBefore[Target(fsCall.path)]
    /\ MoveRefused => Kept(Target(fsCall.path))
    /\ (fsCall.op = "moveNote" /\ ~fsCall.flag) => Kept(Target(fsCall.other))

\* the same for calls whose two paths name different files
C25_MoveNoteDistinct ==
    (fsCall.op = "moveNote" /\ Target(fsCall.path) # Target(fsCall.other))
        => C25_MoveNote

\* the positions at which sub occurs in s
OccurrencesOf(s, sub) ==
    {k \in 1..(Len(s) - Len(sub) + 1) : SubSeq(s, k, k + Len(sub) - 1) = sub}

RECURSIVE EachReplaced(_, _, _)
\* s with every character c replaced by new
EachReplaced(s, c, new) ==
    IF s = <<>> THEN <<>>
    ELSE (IF Head(s) = c THEN new ELSE <<Head(s)>>) \o EachReplaced(Tail(s), c, new)

PatchOld == fsCall.other[1]
PatchNew == fsCall.other[2]
PatchFull == Target(fsCall.path)

\* the conditions under which patchNote may write: the path is allowed and
\* readable, oldString is non-blank, differs from newString and occurs exactly
\* once in the file, or at least once with replaceAll
MayPatch ==
    /\ isAllowed(fsCall.path)
    /\ ~readPage(diskBefore, fsCall.path, 0).thrown
    /\ trim(PatchOld) # <<>>
    /\ PatchOld # PatchNew
    /\ LET n == Cardinality(OccurrencesOf(diskBefore[PatchFull], PatchOld))
       IN  IF fsCall.flag THEN n >= 1 ELSE n = 1

WriteMode == fsCall.other
Merged == fsCall.op = "writePage" /\ WriteMode \in {"append", "prepend"}
                                   /\ ~fsReturn.thrown

\* the body writePage leaves for an existing page with body old
MergedBody(old) ==
    IF WriteMode = "append" THEN old \o <<"\n", "\n">> \o NewContent
    ELSE NewContent \o <<"\n", "\n">> \o old

\* C27: writePage in append or prepend mode never discards the body of an
\* existing page: after the call the file holds old body + blank line + new
\* content (append) or new content + blank line + old body (prepend), also
\* when reading the existing page fails for another reason than its absence;
\* the new content is written alone only when the file does not exist.
C27_WritePage ==
    Merged =>
        /\ Target(fsCall.path) \in DOMAIN disk
        /\ disk[Target(fsCall.path)] =
               IF Target(fsCall.path) \in DOMAIN diskBefore
               THEN MergedBody(diskBefore[Target(fsCall.path)])
               ELSE NewContent

\* the same for pages whose file can be read
C27_WritePageReadable ==
    (Merged /\ Target(fsCall.path) \notin WriteOnly) => C27_WritePage

\* ---------------------------------------------------------------------------
\* resolveBlockRefs and resolveBlockRefsAsync on the same content and lookup
\* ---------------------------------------------------------------------------

BothResolved == rpc = "done" /\ syncResult.done

\* C28: for the same content and the same lookup resolveBlockRefs and
\* resolveBlockRefsAsync return the same string, also when a resolved block's
\* content holds `$` sequences such as `$&` or a reference token, and when
\* tokens are written with upper-case hex digits.
C28_SyncAsyncEqual == BothResolved => result = syncResult.value

\* the two agree when no token has an upper-case hex digit and no resolved
\* block's content holds a `$`
C28_SyncAsyncPlain ==
    (/\ BothResolved
     /\ refContent = toLowerCase(refContent)
     /\ \A u \in DOMAIN lookup : lookup[u].found => indexOfChar(lookup[u].content, "$") = 0)
        => result = syncResult.value

\* ---------------------------------------------------------------------------
\* appendBlock and createBlockRef: what the rewrite keeps of the page
\* ---------------------------------------------------------------------------

\* content, level and properties of the blocks of f, depth-first
ShapesOf(f) ==
    [k \in 1..Len(flattenBlocks(f)) |->
        [content    |-> f.nodes[flattenBlocks(f)[k]].content,
         level      |-> f.nodes[flattenBlocks(f)[k]].level,
         properties |-> f.nodes[flattenBlocks(f)[k]].properties]]

\* s without its j-th element
WithoutAt(s, j) == SubSeq(s, 1, j - 1) \o SubSeq(s, j + 1, Len(s))

\* a non-blank line that is neither a block line nor a property line
IsPlainLine(line) ==
    /\ trim(line) # <<>>
    /\ ~BlockStartMatch(line).ok
    /\ ~PROPERTY_REGEX(trim(line)).ok

Rewritten == fsCall.op \in {"appendBlock", "createBlockRef"} /\ ~fsReturn.thrown

\* the blocks the page had before are all there, as they were and in order
BlocksKept ==
    LET before == ShapesOf(PageBefore.value.forest)
        after  == ShapesOf(PageAfter.value.forest)
    IN  IF fsCall.op = "appendBlock"
        THEN \E j \in 1..Len(after) : WithoutAt(after, j) = before
        ELSE /\ Len(after) = Len(before)
             /\ \E j \in 1..Len(after) :
                    /\ \A k \in 1..Len(after) : k # j => after[k] = before[k]
                    /\ after[j].level = before[j].level
                    /\ after[j].properties = before[j].properties

\* the plain lines of the previous body are still in the file
PlainLinesKept ==
    \A i \in 1..Len(split(diskBefore[Target(fsCall.path)])) :
        IsPlainLine(split(diskBefore[Target(fsCall.path)])[i])
            => \E k \in 1..Len(split(disk[Target(fsCall.path)])) :
                   split(disk[Target(fsCall.path)])[k]
                       = split(diskBefore[Target(fsCall.path)])[i]

\* C26: after appendBlock or createBlockRef rewrote an existing page,
\* re-reading it yields every block it had with the same content, level,
\* properties and relative order (apart from the appended block or the
\* extended content), and every non-blank line of the previous body that was
\* not a block or property line is still in the file.
C26_RestUnchanged ==
    (Rewritten /\ ~PageBefore.thrown) => BlocksKept /\ PlainLinesKept

\* the blocks alone, for the one-line trimmed contents appendBlock is used with
C26_BlocksKept ==
    (/\ Rewritten /\ ~PageBefore.thrown
     /\ fsCall.op = "appendBlock" =>
            fsCall.other[1] = trim(fsCall.other[1]) /\ indexOfChar(fsCall.other[1], "\n") = 0)
        => BlocksKept

\* ---------------------------------------------------------------------------
\* getGraphStats: totals and the most recently modified files
\* ---------------------------------------------------------------------------

\* a directory entry: the relPath of its directory, its name, what it is,
\* and what stat gives for it
Entry(dir, name, kind, size, modified) ==
    [dir |-> dir, name |-> name, kind |-> kind, size |-> size, modified |-> modified]

\* r = relPath ? `${relPath}/${e.name}` : e.name
RelOf(e) == IF e.dir = <<>> THEN e.name ELSE e.dir \o <<"/">> \o e.name

\* a graph with pages, a text file, an image and the .git directory
GraphPlain ==
    {Entry(<<>>, <<"p", "a", "g", "e", "s">>, "dir", 0, 0),
     Entry(<<"p", "a", "g", "e", "s">>, <<"a", ".", "m", "d">>, "file", 3, 5),
     Entry(<<"p", "a", "g", "e", "s">>, <<"b", ".", "m", "d">>, "file", 1, 7),
     Entry(<<>>, <<"n", "o", "t", "e", "s", ".", "t", "x", "t">>, "file", 2, 5),
     Entry(<<>>, <<"i", "m", "g", ".", "p", "n", "g">>, "file", 4, 8),
     Entry(<<>>, <<".", "g", "i", "t">>, "dir", 0, 0),
     Entry(<<".", "g", "i", "t">>, <<"c", "o", "n", "f", "i", "g">>, "file", 9, 9)}
\* a graph with a folder whose name has a dot
GraphDotted ==
    {Entry(<<>>, <<"p", "a", "g", "e", "s">>, "dir", 0, 0),
     Entry(<<"p", "a", "g", "e", "s">>, <<"a", ".", "m", "d">>, "file", 3, 5),
     Entry(<<"p", "a", "g", "e", "s">>, <<"b", ".", "m", "d">>, "file", 1, 7),
     Entry(<<>>, <<"n", "o", "t", "e", "s", ".", "t", "x", "t">>, "file", 2, 6),
     Entry(<<>>, <<"v", "1", ".", "0">>, "dir", 0, 0),
     Entry(<<"v", "1", ".", "0">>, <<"c", ".", "m", "d">>, "file", 2, 9)}
Graphs == {GraphPlain, GraphDotted}
RecentCounts == {0, 1, 2, 5}

RECURSIVE ScanOrders(_, _)
RECURSIVE VisitOrders(_, _, _)
\* the sequences of entries the loops of scan(dir, relPath) may see: readdir
\* lists a directory in any order, and scan recurses into the directories
\* that pass the path filter
ScanOrders(g, relPath) ==
    UNION {VisitOrders(g, o, 1) : o \in Orders({e \in g : e.dir = relPath})}
VisitOrders(g, o, i) ==
    IF i > Len(o) THEN {<<>>}
    ELSE {<<o[i]>> \o below \o rest :
              below \in (IF o[i].kind = "dir" /\ isAllowed(RelOf(o[i]))
                         THEN ScanOrders(g, RelOf(o[i])) ELSE {<<>>}),
              rest \in VisitOrders(g, o, i + 1)}

\* recent.findIndex((x) => x.modified < info.modified), 0 for -1
FindOlder(recent, info) ==
    IF \A i \in 1..Len(recent) : ~(recent[i].modified < info.modified) THEN 0
    ELSE CHOOSE i \in 1..Len(recent) :
             /\ recent[i].modified < info.modified
             /\ \A j \in 1..(i - 1) : ~(recent[j].modified < info.modified)

\* recent.splice(idx, 0, info); if (recent.length > recentCount) recent.pop()
SpliceIn(recent, idx, info, recentCount) ==
    IF Len(recent) + 1 > recentCount
    THEN SubSeq(recent, 1, idx - 1) \o <<info>> \o SubSeq(recent, idx, Len(recent) - 1)
    ELSE SubSeq(recent, 1, idx - 1) \o <<info>> \o SubSeq(recent, idx, Len(recent))

\* recent after the file info was seen
Remember(recent, info, recentCount, idx) ==
    IF idx = 0
    THEN (IF Len(recent) < recentCount THEN Append(recent, info) ELSE recent)
    ELSE SpliceIn(recent, idx, info, recentCount)

StatsInit ==
    /\ \E g \in Graphs : stTree \in [entries : {g}, visit : ScanOrders(g, <<>>)]
    /\ stCount \in RecentCounts
    /\ stIdx = 0
    /\ stRecent = <<>>
    /\ stTotals = [totalNotes |-> 0, totalFolders |-> 0, totalSize |-> 0]
    /\ stpc = "scan"

\* one iteration of `for (const e of entries)`
StatEntry ==
    /\ stpc = "scan"
    /\ stIdx < Len(stTree.visit)
    /\ stIdx' = stIdx + 1
    /\ \E e \in {stTree.visit[stIdx + 1]} :
        \E info \in {[path |-> RelOf(e), modified |-> e.modified]} :
           IF ~isAllowed(RelOf(e)) THEN UNCHANGED <<stRecent, stTotals>>
           ELSE IF e.kind = "dir"
           THEN /\ stTotals' = [stTotals EXCEPT !.totalFolders = @ + 1]
                /\ UNCHANGED stRecent
           ELSE IF e.kind = "file"
           THEN /\ stTotals' = [stTotals EXCEPT !.totalNotes = @ + 1,
                                                !.totalSize = @ + e.size]
                /\ stRecent' = Remember(stRecent, info, stCount,
                                        FindOlder(stRecent, info))
           ELSE UNCHANGED <<stRecent, stTotals>>
    /\ UNCHANGED <<stTree, stCount, stpc>>

\* return { totalNotes, totalFolders, totalSize, recentlyModified: recent }
StatReturn ==
    /\ stpc = "scan"
    /\ stIdx = Len(stTree.visit)
    /\ stpc' = "done"
    /\ UNCHANGED <<stTree, stCount, stIdx, stRecent, stTotals>>

InitStats ==
    /\ StatsInit /\ ExcerptIdle /\ RegexIdle
    /\ ParserIdle /\ RefIdle /\ SearchIdle /\ TaskIdle /\ FsIdle
NextStats ==
    \/ StatEntry /\ UNCHANGED <<parserVars, refVars, searchVars, taskVars, fsVars,
                                excerptVars, regexVars>>
    \/ StatReturn /\ UNCHANGED <<parserVars, refVars, searchVars, taskVars, fsVars,
                                 excerptVars, regexVars>>
SpecStats == InitStats /\ [][NextStats]_vars

\* the files of the graph that the path filter allows
AllowedFiles == {e \in stTree.entries : e.kind = "file" /\ isAllowed(RelOf(e))}

RECURSIVE SizeOf(_)
SizeOf(S) ==
    IF S = {} THEN 0
    ELSE LET e == CHOOSE x \in S : TRUE IN e.size + SizeOf(S \ {e})

\* recent holds distinct allowed files with their modification times, newest
\* first, and no allowed file left out is newer than one it holds
MostRecent(recent, S) ==
    /\ \A i, j \in 1..Len(recent) : i < j => recent[i].modified >= recent[j].modified
    /\ \A i, j \in 1..Len(recent) : i # j => recent[i].path # recent[j].path
    /\ \A i \in 1..Len(recent) :
           \E e \in S : RelOf(e) = recent[i].path /\ e.modified = recent[i].modified
    /\ \A e \in S :
           (\A i \in 1..Len(recent) : recent[i].path # RelOf(e))
               => \A i \in 1..Len(recent) : e.modified <= recent[i].modified

\* C30: getGraphStats(recentCount) returns recentlyModified sorted by
\* modification time, newest first, with exactly min(recentCount, number of
\* allowed files) entries, the most recently modified allowed files of the
\* graph whatever the traversal order; totalNotes is the number of allowed
\* files and totalSize the sum of their sizes.
C30_GraphStats ==
    stpc = "done" =>
        /\ MostRecent(stRecent, AllowedFiles)
        /\ Len(stRecent) = Min(stCount, Cardinality(AllowedFiles))
        /\ stTotals.totalNotes = Cardinality(AllowedFiles)
        /\ stTotals.totalSize = SizeOf(AllowedFiles)

\* the same for graphs in which every folder passes the path filter
C30_GraphStatsFoldersAllowed ==
    (stpc = "done" /\ \A e \in stTree.entries : e.kind = "dir" => isAllowed(RelOf(e)))
        => C30_GraphStats

====
